---- MODULE Spec2Model ----
(***************************************************************************)
(* A model of OCI-DevTest-CostChef.py: the tag classifier, the seven       *)
(* resource scanners, the per-compartment aggregation loop of main(), the  *)
(* report step and the exit status.                                        *)
(*                                                                         *)
(* Python strings that the code inspects character by character (tag keys  *)
(* and tag values: lower(), substring search) are sequences of one-letter  *)
(* strings.  Strings the code only compares or copies (shapes, lifecycle   *)
(* states, ids, names) are TLA+ strings.  A string the code builds by      *)
(* formatting or joining is the sequence of the pieces it concatenates.    *)
(***************************************************************************)
EXTENDS Integers, Sequences, FiniteSets, TLC

VARIABLES
    compartment_ids,  \* main: the parsed --compartments option (<<>> when absent)
    inv,              \* the tenancy's resources, per compartment id (the world the API calls read)
    pc,               \* main's position
    compartments,     \* main: what get_compartments returned
    idx,              \* main: 1-based position of the for loop over compartments
    all_results,      \* main: the seven running finding collections
    comp_results,     \* analyze_compartment: results of the compartment being analysed
    files,            \* the report files written so far, in order
    summary,          \* the final summary lines logged (<<>> until logged)
    exit_code,        \* the process exit status (0 unless sys.exit(1) ran)
    faults,           \* history: the calls the environment made fail, as <<idx, site, kind>>
    scan_log,         \* history: the scanner invocations, as <<idx, scanner>>
    api_calls,        \* history: the API calls issued by the last scanner invocation
    lookups,          \* history: the outcome of each get_compartment call, in order
    resource_tags,    \* the tag set handed to the tag classifier on its own
    tag_checks,       \* what is_dev_test_resource and has_automation_tags returned for it
    failed_calls,     \* history: the API calls that raised in a scanner, in order
    first_run,        \* the outcome of an earlier run over the same inventory, if any
    analyzed          \* history: what analyze_compartment returned, as [idx, id, results]

vars == <<compartment_ids, inv, pc, compartments, idx, all_results, comp_results,
          files, summary, exit_code, faults, scan_log, api_calls, lookups,
          resource_tags, tag_checks, failed_calls, first_run, analyzed>>

\* An optional value (None or x) is <<>> or <<x>>.
Some(x) == <<x>>

-----------------------------------------------------------------------------
(* Bounds of the model. *)

\* How many calls the environment may make fail in one run.
MaxFaults == 1
\* How many compartment ids the --compartments option may carry.
MaxScopes == 2
\* How many resources a drawn compartment holds at most (SpecScan).
MaxList == 2

-----------------------------------------------------------------------------
(* Strings. *)

UpperCase == <<"A","B","C","D","E","F","G","H","I","J","K","L","M",
               "N","O","P","Q","R","S","T","U","V","W","X","Y","Z">>
LowerCase == <<"a","b","c","d","e","f","g","h","i","j","k","l","m",
               "n","o","p","q","r","s","t","u","v","w","x","y","z">>

\* str.lower() on one character.
LowerChar(c) ==
    IF \E i \in DOMAIN UpperCase : UpperCase[i] = c
    THEN LowerCase[CHOOSE i \in DOMAIN UpperCase : UpperCase[i] = c]
    ELSE c

\* str.lower()
Lower(s) == [i \in DOMAIN s |-> LowerChar(s[i])]

\* The Python test  sub in s  on strings.
Contains(sub, s) ==
    \E i \in 0..(Len(s) - Len(sub)) : SubSeq(s, i + 1, i + Len(sub)) = sub

\* sep.join(parts), each part a sequence of pieces.
RECURSIVE Join(_, _)
Join(sep, parts) ==
    IF parts = <<>> THEN <<>>
    ELSE IF Len(parts) = 1 THEN Head(parts)
    ELSE Head(parts) \o sep \o Join(sep, Tail(parts))

\* The decimal digits of n, left-padded with zeros to width w (%Y, %m, %d, ...).
RECURSIVE Digits(_, _)
Digits(n, w) ==
    IF w <= 0 /\ n = 0 THEN <<>>
    ELSE Digits(n \div 10, w - 1) \o <<ToString(n % 10)>>

\* The time of the run, datetime.now(), formatted in place of the resource's own time.
Strftime_Now(t) ==
    IF first_run = <<>> THEN <<"2025", "-", "06", "-", "10", " ", "09", ":", "05", ":", "00">>
    ELSE <<"2025", "-", "06", "-", "10", " ", "09", ":", "07", ":", "30">>

\* datetime.strftime("%Y-%m-%d %H:%M:%S")
Strftime(t) ==
    Digits(t.year, 4) \o <<"-">> \o Digits(t.month, 2) \o <<"-">> \o Digits(t.day, 2)
    \o <<" ">> \o Digits(t.hour, 2) \o <<":">> \o Digits(t.minute, 2)
    \o <<":">> \o Digits(t.second, 2)

-----------------------------------------------------------------------------
(* The cost optimisation criteria set in __init__. *)

production_db_shapes ==
    {"VM.Standard2.2", "VM.Standard2.4", "VM.Standard2.8", "VM.Standard2.16", "VM.Standard2.24",
     "VM.Standard3.2", "VM.Standard3.4", "VM.Standard3.8", "VM.Standard3.16", "VM.Standard3.24",
     "BM.Standard2.52", "BM.Standard3.64", "BM.HighIO1.36",
     "VM.Standard.E3.2", "VM.Standard.E3.4", "VM.Standard.E3.8"}

oversized_compute_shapes ==
    {"VM.Standard2.2", "VM.Standard2.4", "VM.Standard2.8", "VM.Standard2.16", "VM.Standard2.24",
     "VM.Standard3.2", "VM.Standard3.4", "VM.Standard3.8", "VM.Standard3.16", "VM.Standard3.24",
     "VM.DenseIO2.8", "VM.DenseIO2.16", "VM.DenseIO2.24",
     "VM.GPU3.1", "VM.GPU3.2", "VM.GPU3.4",
     "BM.Standard2.52", "BM.Standard3.64"}

dev_test_tags ==
    { <<"d","e","v">>, <<"t","e","s","t">>,
      <<"d","e","v","e","l","o","p","m","e","n","t">>,
      <<"t","e","s","t","i","n","g">>,
      <<"s","t","a","g","i","n","g">>, <<"q","a">> }

automation_tag_keys ==
    { <<"a","u","t","o","-","s","h","u","t","d","o","w","n">>,
      <<"a","u","t","o","-","s","t","a","r","t">>,
      <<"s","c","h","e","d","u","l","e">>,
      <<"s","t","o","p","-","s","t","a","r","t">>,
      <<"a","u","t","o","m","a","t","i","o","n">> }

\* The autonomous database core count from which a database counts as production grade.
ProductionCoreCount == 4

-----------------------------------------------------------------------------
(* The tag classifier.  A resource carries freeform_tags, a sequence of    *)
(* <<key, value>> in the mapping's enumeration order, and defined_tags, a  *)
(* sequence of <<namespace, <<key, value>> pairs>>.                        *)

\* Every <<key, value>> of the defined tags, namespace by namespace.
RECURSIVE DefinedPairs(_)
DefinedPairs(defined) ==
    IF defined = <<>> THEN <<>>
    ELSE Head(defined)[2] \o DefinedPairs(Tail(defined))

\* is_dev_test_resource testing  tag in value.lower()  for each dev/test word.
is_dev_test_resource_Substring(r) ==
    \/ \E i \in DOMAIN r.freeform_tags : \E tag \in dev_test_tags :
           Contains(tag, Lower(r.freeform_tags[i][2]))
    \/ \E i \in DOMAIN DefinedPairs(r.defined_tags) : \E tag \in dev_test_tags :
           Contains(tag, Lower(DefinedPairs(r.defined_tags)[i][2]))

is_dev_test_resource(r) ==
    \/ \E i \in DOMAIN r.freeform_tags : Lower(r.freeform_tags[i][2]) \in dev_test_tags
    \/ \E i \in DOMAIN DefinedPairs(r.defined_tags) :
           Lower(DefinedPairs(r.defined_tags)[i][2]) \in dev_test_tags

\* has_automation_tags testing  key.lower() in automation_tag_keys.
has_automation_tags_ExactKey(r) ==
    \/ \E i \in DOMAIN r.freeform_tags :
           Lower(r.freeform_tags[i][1]) \in automation_tag_keys
    \/ \E i \in DOMAIN DefinedPairs(r.defined_tags) :
           Lower(DefinedPairs(r.defined_tags)[i][1]) \in automation_tag_keys

has_automation_tags(r) ==
    \/ \E i \in DOMAIN r.freeform_tags : \E auto_key \in automation_tag_keys :
           Contains(Lower(auto_key), Lower(r.freeform_tags[i][1]))
    \/ \E i \in DOMAIN DefinedPairs(r.defined_tags) : \E auto_key \in automation_tag_keys :
           Contains(Lower(auto_key), Lower(DefinedPairs(r.defined_tags)[i][1]))

\* The f"{namespace}.{key}={value}" strings of one namespace.
NamespaceTagStrings(ns, tags) ==
    [i \in DOMAIN tags |-> ns \o <<".">> \o tags[i][1] \o <<"=">> \o tags[i][2]]

RECURSIVE DefinedTagStrings(_)
DefinedTagStrings(defined) ==
    IF defined = <<>> THEN <<>>
    ELSE NamespaceTagStrings(Head(defined)[1], Head(defined)[2])
         \o DefinedTagStrings(Tail(defined))

format_tags(r) ==
    LET tag_strings ==
            [i \in DOMAIN r.freeform_tags |->
                r.freeform_tags[i][1] \o <<"=">> \o r.freeform_tags[i][2]]
            \o DefinedTagStrings(r.defined_tags)
    IN  IF tag_strings # <<>> THEN Join(<<"; ">>, tag_strings) ELSE <<"N/A">>

-----------------------------------------------------------------------------
(* The resources of the modelled tenancy.  Every resource record carries   *)
(* the attributes the code reads.  What a secondary call returns for a     *)
(* resource (its volume attachments, its load balancer details, the        *)
(* security lists of a VCN) is kept with the resource, as the environment  *)
(* would answer for its id.                                                *)

TagsNone     == [freeform_tags |-> <<>>, defined_tags |-> <<>>]
TagsProd     == [freeform_tags |-> << << <<"e","n","v">>, <<"p","r","o","d">> >> >>,
                 defined_tags  |-> <<>>]
TagsDev      == [freeform_tags |-> << << <<"e","n","v">>, <<"D","e","v">> >> >>,
                 defined_tags  |-> <<>>]
TagsDevAuto  == [freeform_tags |-> << << <<"e","n","v">>, <<"t","e","s","t">> >>,
                                     << <<"S","c","h","e","d","u","l","e">>, <<"o","n">> >> >>,
                 defined_tags  |-> <<>>]
TagsQaDefined == [freeform_tags |-> <<>>,
                  defined_tags  |-> << << <<"o","p","s">>,
                                          << << <<"s","t","a","g","e">>, <<"Q","A">> >> >> >> >>]
\* A key that names an environment and a value that merely contains one.
TagsDevKeyOnly == [freeform_tags |-> << << <<"d","e","v">>, <<"d","e","v","o","p","s">> >> >>,
                   defined_tags  |-> <<>>]

Time1 == [year |-> 2025, month |-> 6, day |-> 10, hour |-> 9, minute |-> 5, second |-> 0]
Time2 == [year |-> 2024, month |-> 12, day |-> 31, hour |-> 23, minute |-> 59, second |-> 59]

DbSystem(id, shape, state, tags) ==
    [id |-> id, display_name |-> "db-" \o id, shape |-> shape, lifecycle_state |-> state,
     availability_domain |-> "AD-1", cpu_core_count |-> 2,
     database_edition |-> "STANDARD_EDITION"] @@ tags

AutonomousDb(id, cores, state, tags) ==
    [id |-> id, display_name |-> "adb-" \o id, cpu_core_count |-> cores,
     lifecycle_state |-> state, db_workload |-> "OLTP"] @@ tags

Instance(id, shape, state, tags) ==
    [id |-> id, display_name |-> "vm-" \o id, shape |-> shape, lifecycle_state |-> state,
     availability_domain |-> "AD-1", time_created |-> Time1] @@ tags

\* attachments: what list_volume_attachments returns for the volume.
Volume(id, state, attachments, tags) ==
    [id |-> id, display_name |-> "vol-" \o id, size_in_gbs |-> 50, vpus_per_gb |-> 10,
     availability_domain |-> "AD-1", lifecycle_state |-> state, time_created |-> Time2,
     attachments |-> attachments] @@ tags

PublicIp(id, state, assigned, tags) ==
    [id |-> id, display_name |-> "ip-" \o id, ip_address |-> "203.0.113." \o id,
     scope |-> "REGION", lifetime |-> "RESERVED", lifecycle_state |-> state,
     time_created |-> Time1, assigned_entity_id |-> assigned] @@ tags

\* backend_sets: what get_load_balancer returns for the load balancer, a sequence of
\* <<name, backend set>>.
LoadBalancer(id, state, backend_sets, tags) ==
    [id |-> id, display_name |-> "lb-" \o id, shape_name |-> "100Mbps",
     lifecycle_state |-> state,
     ip_addresses |-> << [ip_address |-> "192.0.2.1"], [ip_address |-> "192.0.2.2"] >>,
     time_created |-> Time2, backend_sets |-> backend_sets] @@ tags

\* An ingress rule: tcp_options is <<>> (None) or <<[destination_port_range |-> <<>> or
\* <<[min, max]>>]>>.
Rule(source, protocol, tcp_options) ==
    [source |-> source, protocol |-> protocol, tcp_options |-> tcp_options]

TcpPorts(lo, hi) == Some([destination_port_range |-> Some([min |-> lo, max |-> hi])])
TcpAnyPort == Some([destination_port_range |-> <<>>])

SecurityList(id, state, rules, tags) ==
    [id |-> id, display_name |-> "sl-" \o id, lifecycle_state |-> state,
     ingress_security_rules |-> rules] @@ tags

\* security_lists: what list_security_lists returns for the VCN.
Vcn(id, state, security_lists) ==
    [id |-> id, display_name |-> "vcn-" \o id, lifecycle_state |-> state,
     security_lists |-> security_lists]

DbSystemPool ==
    { DbSystem("d1", "VM.Standard2.4", "AVAILABLE", TagsDev),
      DbSystem("d2", "VM.Standard2.1", "AVAILABLE", TagsDev),
      DbSystem("d3", "BM.HighIO1.36", "AVAILABLE", TagsProd),
      DbSystem("d4", "VM.Standard.E3.2", "PROVISIONING", TagsQaDefined) }

AutonomousDbPool ==
    { AutonomousDb("a1", 4, "AVAILABLE", TagsQaDefined),
      AutonomousDb("a2", 3, "AVAILABLE", TagsDev),
      AutonomousDb("a3", 8, "AVAILABLE", TagsDevKeyOnly),
      AutonomousDb("a4", 8, "STOPPED", TagsDev) }

InstancePool ==
    { Instance("i1", "VM.Standard2.8", "RUNNING", TagsDev),
      Instance("i2", "VM.Standard2.1", "STOPPED", TagsDevAuto),
      Instance("i3", "VM.GPU3.1", "RUNNING", TagsDevAuto),
      Instance("i4", "VM.Standard.E2.1", "RUNNING", TagsQaDefined),
      Instance("i5", "VM.Standard2.8", "RUNNING", TagsNone),
      Instance("i6", "VM.Standard2.8", "TERMINATED", TagsDev) }

VolumePool ==
    { Volume("v1", "AVAILABLE", <<>>, TagsDev),
      Volume("v2", "AVAILABLE", <<"att-1">>, TagsDev),
      Volume("v3", "AVAILABLE", <<>>, TagsProd),
      Volume("v4", "TERMINATED", <<>>, TagsDev),
      Volume("v5", "AVAILABLE", <<>>, TagsQaDefined) }

PublicIpPool ==
    { PublicIp("p1", "AVAILABLE", <<>>, TagsDev),
      PublicIp("p2", "AVAILABLE", Some("vnic-1"), TagsDev),
      PublicIp("p3", "AVAILABLE", <<>>, TagsNone),
      PublicIp("p4", "TERMINATING", <<>>, TagsQaDefined) }

Backends(n) == [backends |-> [i \in 1..n |-> "10.0.0.1"]]

LoadBalancerPool ==
    { LoadBalancer("l1", "ACTIVE", <<>>, TagsDev),
      LoadBalancer("l2", "ACTIVE", << <<"bs1", Backends(0)>>, <<"bs2", Backends(1)>> >>, TagsDev),
      LoadBalancer("l3", "ACTIVE", << <<"bs1", Backends(0)>> >>, TagsQaDefined),
      LoadBalancer("l4", "ACTIVE", <<>>, TagsProd),
      LoadBalancer("l5", "FAILED", <<>>, TagsDev) }

AnySource == "0.0.0.0/0"

SL1 ==
    SecurityList("s1", "AVAILABLE",
                 << Rule(AnySource, "all", <<>>), Rule(AnySource, "6", TcpPorts(22, 22)) >>,
                 TagsDev)
SL2 ==
    SecurityList("s2", "AVAILABLE",
                 << Rule("10.0.0.0/8", "all", <<>>), Rule(AnySource, "6", TcpPorts(443, 443)) >>,
                 TagsDev)
SL3 == SecurityList("s3", "AVAILABLE", << Rule(AnySource, "all", <<>>) >>, TagsProd)
SL4 == SecurityList("s4", "TERMINATED", << Rule(AnySource, "all", <<>>) >>, TagsDev)
SL5 ==
    SecurityList("s5", "AVAILABLE",
                 << Rule(AnySource, "6", TcpAnyPort), Rule(AnySource, "6", TcpPorts(3389, 3390)) >>,
                 TagsQaDefined)

VcnPool ==
    { Vcn("n1", "AVAILABLE", <<SL1, SL2>>),
      Vcn("n2", "AVAILABLE", <<SL3, SL5>>),
      Vcn("n3", "TERMINATED", <<SL4>>),
      Vcn("n4", "AVAILABLE", <<SL4>>) }

-----------------------------------------------------------------------------
(* Listings and inventories. *)

\* The sequences of at most n distinct members of pool.
RECURSIVE ListingsOver(_, _)
ListingsOver(pool, n) ==
    IF n = 0 THEN { <<>> }
    ELSE LET shorter == ListingsOver(pool, n - 1)
             longest == { l \in shorter : Len(l) = n - 1 }
         IN  shorter \cup
             { Append(p[1], p[2]) :
                 p \in { q \in longest \X pool : \A i \in DOMAIN q[1] : q[1][i] # q[2] } }

\* The listing kinds of one compartment.
Kinds == {"db_systems", "autonomous_dbs", "instances", "volumes", "public_ips",
          "load_balancers", "vcns"}

Pool(kind) ==
    CASE kind = "db_systems"     -> DbSystemPool
      [] kind = "autonomous_dbs" -> AutonomousDbPool
      [] kind = "instances"      -> InstancePool
      [] kind = "volumes"        -> VolumePool
      [] kind = "public_ips"     -> PublicIpPool
      [] kind = "load_balancers" -> LoadBalancerPool
      [] kind = "vcns"           -> VcnPool

EmptyInventory == [k \in Kinds |-> <<>>]

\* The tenancy root: resources of every kind, matching and not.
RootInventory ==
    [db_systems     |-> << DbSystem("d3", "BM.HighIO1.36", "AVAILABLE", TagsProd),
                           DbSystem("d1", "VM.Standard2.4", "AVAILABLE", TagsDev) >>,
     autonomous_dbs |-> << AutonomousDb("a1", 4, "AVAILABLE", TagsQaDefined),
                           AutonomousDb("a2", 3, "AVAILABLE", TagsDev) >>,
     instances      |-> << Instance("i1", "VM.Standard2.8", "RUNNING", TagsDev),
                           Instance("i5", "VM.Standard2.8", "RUNNING", TagsNone),
                           Instance("i3", "VM.GPU3.1", "RUNNING", TagsDevAuto),
                           Instance("i4", "VM.Standard.E2.1", "RUNNING", TagsQaDefined) >>,
     volumes        |-> << Volume("v1", "AVAILABLE", <<>>, TagsDev),
                           Volume("v2", "AVAILABLE", <<"att-1">>, TagsDev),
                           Volume("v5", "AVAILABLE", <<>>, TagsQaDefined) >>,
     public_ips     |-> << PublicIp("p2", "AVAILABLE", Some("vnic-1"), TagsDev),
                           PublicIp("p1", "AVAILABLE", <<>>, TagsDev) >>,
     load_balancers |-> << LoadBalancer("l1", "ACTIVE", <<>>, TagsDev),
                           LoadBalancer("l2", "ACTIVE",
                                        << <<"bs1", Backends(0)>>, <<"bs2", Backends(1)>> >>,
                                        TagsDev) >>,
     vcns           |-> << Vcn("n1", "AVAILABLE", <<SL1, SL2>>),
                           Vcn("n2", "AVAILABLE", <<SL3, SL5>>) >>]

\* A compartment whose only match is one dev-tagged database system on a production shape.
OneDbInventory ==
    [db_systems     |-> << DbSystem("d9", "VM.Standard3.8", "AVAILABLE", TagsDev) >>,
     autonomous_dbs |-> << AutonomousDb("a9", 2, "AVAILABLE", TagsDev) >>,
     instances      |-> << Instance("i9", "VM.Standard.E2.1", "RUNNING", TagsDevAuto) >>,
     volumes        |-> << Volume("v9", "AVAILABLE", <<"att-9">>, TagsDev) >>,
     public_ips     |-> << PublicIp("p9", "AVAILABLE", Some("vnic-9"), TagsDev) >>,
     load_balancers |-> << LoadBalancer("l9", "ACTIVE", << <<"bs1", Backends(1)>> >>, TagsDev) >>,
     vcns           |-> << Vcn("n9", "AVAILABLE", <<SL2>>) >>]

\* The id config['tenancy'] names.
TenancyId == "tenancy"

\* The compartment ids of the modelled tenancy.
CompartmentIds == {TenancyId, "c1"}

FixedInventories == [c \in CompartmentIds |-> IF c = TenancyId THEN RootInventory
                                             ELSE OneDbInventory]

-----------------------------------------------------------------------------
(* The API calls, answered from the inventory.  A call the environment     *)
(* makes fail raises instead: a fault [at |-> n, kind |-> k] makes the     *)
(* n-th API call of one scanner invocation raise an exception of kind k.   *)

list_db_systems(compartment_id)           == inv[compartment_id].db_systems
list_autonomous_databases(compartment_id) == inv[compartment_id].autonomous_dbs
list_instances(compartment_id)            == inv[compartment_id].instances
list_volumes(compartment_id)              == inv[compartment_id].volumes
list_public_ips(compartment_id)           == inv[compartment_id].public_ips
list_load_balancers(compartment_id)       == inv[compartment_id].load_balancers
list_vcns(compartment_id)                 == inv[compartment_id].vcns
list_volume_attachments(compartment_id, volume) == volume.attachments
get_load_balancer(lb)                     == [backend_sets |-> lb.backend_sets]
list_security_lists(compartment_id, vcn)  == vcn.security_lists

NoFault == [at |-> 0, kind |-> "none"]

\* Exception is what a failing call raises; KeyboardInterrupt is the user's interrupt,
\* a BaseException that is no Exception.
ExceptionKinds == {"Exception", "KeyboardInterrupt"}

\* A scanner without its except clause: nothing is caught.
ExceptClauseMissing(kind) == FALSE

\* The clause  except Exception as e:  that closes every scanner's try block.
\* A bare  except:  clause, which catches KeyboardInterrupt as well.
CaughtByBareExcept(kind) == TRUE

CaughtByExceptException(kind) == kind = "Exception"

\* [f(l[i]) for the i with test(l[i])], in the order of l.
FilterMap(l, test(_), f(_)) ==
    LET kept == SelectSeq(l, test)
    IN  [i \in DOMAIN kept |-> f(kept[i])]

-----------------------------------------------------------------------------
(* check_database_instances *)

DbSystemFinding(db_system, compartment_id) ==
    [resource_type |-> "DB System", name |-> db_system.display_name,
     shape |-> <<db_system.shape>>, lifecycle_state |-> db_system.lifecycle_state,
     availability_domain |-> db_system.availability_domain,
     cpu_core_count |-> db_system.cpu_core_count,
     database_edition |-> db_system.database_edition,
     compartment_id |-> compartment_id, tags |-> format_tags(db_system),
     resource_id |-> db_system.id]

AutonomousDbFinding(adb, compartment_id) ==
    [resource_type |-> "Autonomous Database", name |-> adb.display_name,
     shape |-> <<ToString(adb.cpu_core_count), " OCPUs">>,
     lifecycle_state |-> adb.lifecycle_state, availability_domain |-> "N/A",
     cpu_core_count |-> adb.cpu_core_count, database_edition |-> adb.db_workload,
     compartment_id |-> compartment_id, tags |-> format_tags(adb),
     resource_id |-> adb.id]

DbSystemFlagged(db_system) ==
    /\ is_dev_test_resource(db_system)
    /\ db_system.shape \in production_db_shapes
    /\ db_system.lifecycle_state = "AVAILABLE"

AutonomousDbFlagged(adb) ==
    /\ is_dev_test_resource(adb)
    /\ adb.cpu_core_count >= ProductionCoreCount
    /\ adb.lifecycle_state = "AVAILABLE"

check_database_instances(compartment_id, fault) ==
    LET calls1 == << <<"list_db_systems", compartment_id>> >>
        calls2 == Append(calls1, <<"list_autonomous_databases", compartment_id>>)
        from_systems ==
            FilterMap(list_db_systems(compartment_id), DbSystemFlagged,
                      LAMBDA r : DbSystemFinding(r, compartment_id))
        from_autonomous ==
            FilterMap(list_autonomous_databases(compartment_id), AutonomousDbFlagged,
                      LAMBDA r : AutonomousDbFinding(r, compartment_id))
    IN  IF fault.at = 1
        THEN [results |-> <<>>, calls |-> calls1, raised |-> fault.kind]
        ELSE IF fault.at = 2
        THEN [results |-> from_systems, calls |-> calls2, raised |-> fault.kind]
        ELSE [results |-> from_systems \o from_autonomous, calls |-> calls2,
              raised |-> "none"]

-----------------------------------------------------------------------------
(* check_compute_instances *)

InstanceFinding(instance, compartment_id) ==
    [instance_name |-> instance.display_name, shape |-> instance.shape,
     lifecycle_state |-> instance.lifecycle_state,
     availability_domain |-> instance.availability_domain,
     time_created |-> Strftime(instance.time_created),
     compartment_id |-> compartment_id, tags |-> format_tags(instance),
     resource_id |-> instance.id]

InstanceConsidered(instance) ==
    /\ is_dev_test_resource(instance)
    /\ instance.lifecycle_state \in {"RUNNING", "STOPPED"}

InstanceMissingAutomation(instance) ==
    InstanceConsidered(instance) /\ ~has_automation_tags(instance)

\* InstanceOversized tested outside the dev/test and lifecycle condition.
InstanceOversized_ShapeOnly(instance) == instance.shape \in oversized_compute_shapes

InstanceOversized(instance) ==
    InstanceConsidered(instance) /\ instance.shape \in oversized_compute_shapes

\* Both collections are filled in one pass over one listing.
check_compute_instances(compartment_id, fault) ==
    LET calls1 == << <<"list_instances", compartment_id>> >>
        instances == list_instances(compartment_id)
    IN  IF fault.at = 1
        THEN [missing_automation |-> <<>>, oversized_instances |-> <<>>,
              calls |-> calls1, raised |-> fault.kind]
        ELSE [missing_automation |->
                  FilterMap(instances, InstanceMissingAutomation,
                            LAMBDA r : InstanceFinding(r, compartment_id)),
              oversized_instances |->
                  FilterMap(instances, InstanceOversized,
                            LAMBDA r : InstanceFinding(r, compartment_id)),
              calls |-> calls1, raised |-> "none"]

-----------------------------------------------------------------------------
(* check_unattached_volumes *)

VolumeFinding(volume, compartment_id) ==
    [volume_name |-> volume.display_name, size_gb |-> volume.size_in_gbs,
     volume_type |-> volume.vpus_per_gb,
     availability_domain |-> volume.availability_domain,
     lifecycle_state |-> volume.lifecycle_state,
     time_created |-> Strftime(volume.time_created),
     compartment_id |-> compartment_id, tags |-> format_tags(volume),
     resource_id |-> volume.id]

\* VolumeConsidered without its lifecycle test.
VolumeConsidered_AnyState(volume) == is_dev_test_resource(volume)

VolumeConsidered(volume) ==
    is_dev_test_resource(volume) /\ volume.lifecycle_state = "AVAILABLE"

\* The for loop over the listed volumes with the test  if attachments:  in place of
\* if not attachments:.
RECURSIVE VolumeLoop_FlagAttached(_, _, _, _)
VolumeLoop_FlagAttached(compartment_id, volumes, acc, fault) ==
    IF volumes = <<>> THEN acc
    ELSE LET volume == Head(volumes)
             calls == Append(acc.calls, <<"list_volume_attachments", volume.id>>)
         IN  IF ~VolumeConsidered(volume)
             THEN VolumeLoop_FlagAttached(compartment_id, Tail(volumes), acc, fault)
             ELSE IF fault.at = Len(calls)
             THEN [results |-> acc.results, calls |-> calls, raised |-> fault.kind]
             ELSE LET attachments == list_volume_attachments(compartment_id, volume)
                  IN  VolumeLoop_FlagAttached(compartment_id, Tail(volumes),
                                 [results |-> IF attachments # <<>>
                                              THEN Append(acc.results,
                                                          VolumeFinding(volume, compartment_id))
                                              ELSE acc.results,
                                  calls |-> calls, raised |-> "none"],
                                 fault)

\* The for loop over the listed volumes: acc is what the scanner holds so far.  A raising
\* attachment lookup leaves the loop, and the try block, with the results gathered so far.
RECURSIVE VolumeLoop(_, _, _, _)
VolumeLoop(compartment_id, volumes, acc, fault) ==
    IF volumes = <<>> THEN acc
    ELSE LET volume == Head(volumes)
             calls == Append(acc.calls, <<"list_volume_attachments", volume.id>>)
         IN  IF ~VolumeConsidered(volume)
             THEN VolumeLoop(compartment_id, Tail(volumes), acc, fault)
             ELSE IF fault.at = Len(calls)
             THEN [results |-> acc.results, calls |-> calls, raised |-> fault.kind]
             ELSE LET attachments == list_volume_attachments(compartment_id, volume)
                  IN  VolumeLoop(compartment_id, Tail(volumes),
                                 [results |-> IF attachments = <<>>
                                              THEN Append(acc.results,
                                                          VolumeFinding(volume, compartment_id))
                                              ELSE acc.results,
                                  calls |-> calls, raised |-> "none"],
                                 fault)

\* check_unattached_volumes with  results = []  in its except clause.
check_unattached_volumes_ResetOnError(compartment_id, fault) ==
    LET out == IF fault.at = 1
               THEN [results |-> <<>>, calls |-> << <<"list_volumes", compartment_id>> >>,
                     raised |-> fault.kind]
               ELSE VolumeLoop(compartment_id, list_volumes(compartment_id),
                               [results |-> <<>>,
                                calls |-> << <<"list_volumes", compartment_id>> >>,
                                raised |-> "none"], fault)
    IN  IF out.raised # "none" THEN [out EXCEPT !.results = <<>>] ELSE out

check_unattached_volumes(compartment_id, fault) ==
    LET calls1 == << <<"list_volumes", compartment_id>> >>
    IN  IF fault.at = 1
        THEN [results |-> <<>>, calls |-> calls1, raised |-> fault.kind]
        ELSE VolumeLoop(compartment_id, list_volumes(compartment_id),
                        [results |-> <<>>, calls |-> calls1, raised |-> "none"], fault)

-----------------------------------------------------------------------------
(* check_unused_public_ips *)

PublicIpFinding(public_ip, compartment_id) ==
    [public_ip_name |-> public_ip.display_name, ip_address |-> public_ip.ip_address,
     scope |-> public_ip.scope, lifetime |-> public_ip.lifetime,
     lifecycle_state |-> public_ip.lifecycle_state,
     time_created |-> Strftime(public_ip.time_created),
     compartment_id |-> compartment_id, tags |-> format_tags(public_ip),
     resource_id |-> public_ip.id]

PublicIpFlagged(public_ip) ==
    /\ is_dev_test_resource(public_ip)
    /\ public_ip.lifecycle_state = "AVAILABLE"
    /\ public_ip.assigned_entity_id = <<>>

check_unused_public_ips(compartment_id, fault) ==
    LET calls1 == << <<"list_public_ips", compartment_id>> >>
    IN  IF fault.at = 1
        THEN [results |-> <<>>, calls |-> calls1, raised |-> fault.kind]
        ELSE [results |-> FilterMap(list_public_ips(compartment_id), PublicIpFlagged,
                                    LAMBDA r : PublicIpFinding(r, compartment_id)),
              calls |-> calls1, raised |-> "none"]

-----------------------------------------------------------------------------
(* check_empty_load_balancers *)

LoadBalancerFinding(lb, compartment_id) ==
    [load_balancer_name |-> lb.display_name, shape |-> lb.shape_name,
     lifecycle_state |-> lb.lifecycle_state,
     ip_addresses |-> Join(<<"; ">>, [i \in DOMAIN lb.ip_addresses |->
                                          <<lb.ip_addresses[i].ip_address>>]),
     time_created |-> Strftime(lb.time_created),
     compartment_id |-> compartment_id, tags |-> format_tags(lb),
     resource_id |-> lb.id]

LoadBalancerConsidered(lb) ==
    is_dev_test_resource(lb) /\ lb.lifecycle_state = "ACTIVE"

\* has_backends after the loop over lb_details.backend_sets.
HasBackends(lb_details) ==
    \E i \in DOMAIN lb_details.backend_sets : lb_details.backend_sets[i][2].backends # <<>>

RECURSIVE LoadBalancerLoop(_, _, _, _)
LoadBalancerLoop(compartment_id, load_balancers, acc, fault) ==
    IF load_balancers = <<>> THEN acc
    ELSE LET lb == Head(load_balancers)
             calls == Append(acc.calls, <<"get_load_balancer", lb.id>>)
         IN  IF ~LoadBalancerConsidered(lb)
             THEN LoadBalancerLoop(compartment_id, Tail(load_balancers), acc, fault)
             ELSE IF fault.at = Len(calls)
             THEN [results |-> acc.results, calls |-> calls, raised |-> fault.kind]
             ELSE LET lb_details == get_load_balancer(lb)
                  IN  LoadBalancerLoop(compartment_id, Tail(load_balancers),
                                       [results |-> IF ~HasBackends(lb_details)
                                                    THEN Append(acc.results,
                                                                LoadBalancerFinding(lb, compartment_id))
                                                    ELSE acc.results,
                                        calls |-> calls, raised |-> "none"],
                                       fault)

check_empty_load_balancers(compartment_id, fault) ==
    LET calls1 == << <<"list_load_balancers", compartment_id>> >>
    IN  IF fault.at = 1
        THEN [results |-> <<>>, calls |-> calls1, raised |-> fault.kind]
        ELSE LoadBalancerLoop(compartment_id, list_load_balancers(compartment_id),
                              [results |-> <<>>, calls |-> calls1, raised |-> "none"], fault)

-----------------------------------------------------------------------------
(* check_permissive_security_lists *)

SshPort == 22
RdpPort == 3389

\* The rule test without its test of the source.
RulePermissive_AnySource(rule) ==
    \/ rule.tcp_options = <<>>
    \/ /\ rule.tcp_options[1].destination_port_range # <<>>
       /\ \/ rule.tcp_options[1].destination_port_range[1].min = SshPort
          \/ rule.tcp_options[1].destination_port_range[1].min = RdpPort

\* The rule test asking whether the port range covers port 22 or port 3389.
RulePermissive_PortInRange(rule) ==
    /\ rule.source = "0.0.0.0/0"
    /\ \/ rule.tcp_options = <<>>
       \/ /\ rule.tcp_options[1].destination_port_range # <<>>
          /\ \E port \in {SshPort, RdpPort} :
                 /\ rule.tcp_options[1].destination_port_range[1].min <= port
                 /\ port <= rule.tcp_options[1].destination_port_range[1].max

RulePermissive(rule) ==
    /\ rule.source = "0.0.0.0/0"
    /\ \/ rule.tcp_options = <<>>
       \/ /\ rule.tcp_options[1].destination_port_range # <<>>
          /\ \/ rule.tcp_options[1].destination_port_range[1].min = SshPort
             \/ rule.tcp_options[1].destination_port_range[1].min = RdpPort

\* The f"TCP:{...}" description of a permissive rule.
RuleDescription(rule) ==
    <<"TCP:">> \o
    (IF rule.tcp_options # <<>> /\ rule.tcp_options[1].destination_port_range # <<>>
     THEN <<ToString(rule.tcp_options[1].destination_port_range[1].min)>>
     ELSE <<"ALL">>)

PermissiveRules(sec_list) ==
    FilterMap(sec_list.ingress_security_rules, RulePermissive, RuleDescription)

SecurityListFinding(sec_list, vcn, compartment_id) ==
    [security_list_name |-> sec_list.display_name, vcn_name |-> vcn.display_name,
     lifecycle_state |-> sec_list.lifecycle_state,
     permissive_rules_count |-> Len(PermissiveRules(sec_list)),
     permissive_rules |-> Join(<<"; ">>, PermissiveRules(sec_list)),
     compartment_id |-> compartment_id, tags |-> format_tags(sec_list),
     resource_id |-> sec_list.id]

SecurityListFlagged(sec_list) ==
    /\ is_dev_test_resource(sec_list)
    /\ sec_list.lifecycle_state = "AVAILABLE"
    /\ PermissiveRules(sec_list) # <<>>

VcnConsidered(vcn) == vcn.lifecycle_state = "AVAILABLE"

RECURSIVE VcnLoop(_, _, _, _)
VcnLoop(compartment_id, vcns, acc, fault) ==
    IF vcns = <<>> THEN acc
    ELSE LET vcn == Head(vcns)
             calls == Append(acc.calls, <<"list_security_lists", vcn.id>>)
         IN  IF ~VcnConsidered(vcn)
             THEN VcnLoop(compartment_id, Tail(vcns), acc, fault)
             ELSE IF fault.at = Len(calls)
             THEN [results |-> acc.results, calls |-> calls, raised |-> fault.kind]
             ELSE LET security_lists == list_security_lists(compartment_id, vcn)
                  IN  VcnLoop(compartment_id, Tail(vcns),
                              [results |-> acc.results \o
                                   FilterMap(security_lists, SecurityListFlagged,
                                             LAMBDA sl : SecurityListFinding(sl, vcn, compartment_id)),
                               calls |-> calls, raised |-> "none"],
                              fault)

check_permissive_security_lists(compartment_id, fault) ==
    LET calls1 == << <<"list_vcns", compartment_id>> >>
    IN  IF fault.at = 1
        THEN [results |-> <<>>, calls |-> calls1, raised |-> fault.kind]
        ELSE VcnLoop(compartment_id, list_vcns(compartment_id),
                     [results |-> <<>>, calls |-> calls1, raised |-> "none"], fault)

-----------------------------------------------------------------------------
(* The finding categories, in the order of the results dictionaries. *)

CategoryOrder ==
    <<"database_instances", "compute_missing_automation", "oversized_compute",
      "unattached_volumes", "unused_public_ips", "empty_load_balancers",
      "permissive_security_lists">>

Categories == { CategoryOrder[i] : i \in DOMAIN CategoryOrder }

EmptyResults == [c \in Categories |-> <<>>]

\* The scanner methods analyze_compartment calls, in call order.
ScannerOrder ==
    <<"check_database_instances", "check_compute_instances", "check_unattached_volumes",
      "check_unused_public_ips", "check_empty_load_balancers",
      "check_permissive_security_lists">>

Scanners == { ScannerOrder[i] : i \in DOMAIN ScannerOrder }

RECURSIVE SumLen(_, _)
SumLen(results, cats) ==
    IF cats = <<>> THEN 0 ELSE Len(results[Head(cats)]) + SumLen(results, Tail(cats))

\* sum(len(results) for results in all_results.values())
TotalIssues(results) == SumLen(results, CategoryOrder)

\* list.extend(more) leaving out what the list already holds.
Extend_Unique(list, more) ==
    list \o SelectSeq(more, LAMBDA f : \A i \in DOMAIN list : list[i] # f)

\* list.insert at the front instead of list.extend.
Extend_Prepend(list, more) == more \o list

\* list.extend
Extend(list, more) == list \o more

-----------------------------------------------------------------------------
(* The report writer. *)

report_mappings ==
    [database_instances         |-> "Database_Production_Shapes",
     compute_missing_automation |-> "Compute_Missing_Automation_Tags",
     oversized_compute          |-> "Oversized_Compute_Instances",
     unattached_volumes         |-> "Unattached_Block_Volumes",
     unused_public_ips          |-> "Unused_Public_IPs",
     empty_load_balancers       |-> "Empty_Load_Balancers",
     permissive_security_lists  |-> "Permissive_Security_Lists"]

InstanceFields == <<"instance_name", "shape", "lifecycle_state", "availability_domain",
                    "time_created", "compartment_id", "tags", "resource_id">>

\* data[0].keys(): the keys of a category's finding, in the order the scanner sets them.
FieldNames(category) ==
    CASE category = "database_instances" ->
             <<"resource_type", "name", "shape", "lifecycle_state", "availability_domain",
               "cpu_core_count", "database_edition", "compartment_id", "tags", "resource_id">>
      [] category = "compute_missing_automation" -> InstanceFields
      [] category = "oversized_compute" -> InstanceFields
      [] category = "unattached_volumes" ->
             <<"volume_name", "size_gb", "volume_type", "availability_domain",
               "lifecycle_state", "time_created", "compartment_id", "tags", "resource_id">>
      [] category = "unused_public_ips" ->
             <<"public_ip_name", "ip_address", "scope", "lifetime", "lifecycle_state",
               "time_created", "compartment_id", "tags", "resource_id">>
      [] category = "empty_load_balancers" ->
             <<"load_balancer_name", "shape", "lifecycle_state", "ip_addresses",
               "time_created", "compartment_id", "tags", "resource_id">>
      [] category = "permissive_security_lists" ->
             <<"security_list_name", "vcn_name", "lifecycle_state", "permissive_rules_count",
               "permissive_rules", "compartment_id", "tags", "resource_id">>

\* The file with writer.writerow(data[0]) in place of writer.writerows(data).
CsvFile_FirstRowOnly(category, data) ==
    [type |-> "csv", label |-> report_mappings[category], category |-> category,
     header |-> FieldNames(category),
     rows |-> [i \in DOMAIN data \cap {1} |->
                  [j \in DOMAIN FieldNames(category) |-> data[i][FieldNames(category)[j]]]]]

\* The file csv.DictWriter writes for one category: writeheader, then writerows.
CsvFile(category, data) ==
    [type |-> "csv", label |-> report_mappings[category], category |-> category,
     header |-> FieldNames(category),
     rows |-> [i \in DOMAIN data |->
                  [j \in DOMAIN FieldNames(category) |-> data[i][FieldNames(category)[j]]]]]

\* export_to_csv without its  if data:  test.
CsvFilesOf_EveryCategory(results, cats) ==
    [i \in DOMAIN cats |-> CsvFile(cats[i], results[cats[i]])]

\* export_to_csv: one file per category that holds findings, in the dictionary's order.
RECURSIVE CsvFilesOf(_, _)
CsvFilesOf(results, cats) ==
    IF cats = <<>> THEN <<>>
    ELSE (IF results[Head(cats)] # <<>>
          THEN <<CsvFile(Head(cats), results[Head(cats)])>> ELSE <<>>)
         \o CsvFilesOf(results, Tail(cats))

export_to_csv(results) == CsvFilesOf(results, CategoryOrder)

\* The labels of the summary block's metrics.
SummaryLabels ==
    [database_instances         |-> "Database Production Shapes",
     compute_missing_automation |-> "Compute Missing Auto-Tags",
     oversized_compute          |-> "Oversized Compute Instances",
     unattached_volumes         |-> "Unattached Block Volumes",
     unused_public_ips          |-> "Unused Public IPs",
     empty_load_balancers       |-> "Empty Load Balancers",
     permissive_security_lists  |-> "Permissive Security Lists"]

\* The fields of a finding a table row of the document shows, cell by cell.
HtmlColumns(category) ==
    CASE category = "database_instances" ->
             <<"resource_type", "name", "shape", "lifecycle_state", "availability_domain",
               "cpu_core_count", "tags">>
      [] category \in {"compute_missing_automation", "oversized_compute"} ->
             <<"instance_name", "shape", "lifecycle_state", "availability_domain",
               "time_created", "tags">>
      [] category = "unattached_volumes" ->
             <<"volume_name", "size_gb", "volume_type", "availability_domain",
               "time_created", "tags">>
      [] category = "unused_public_ips" ->
             <<"public_ip_name", "ip_address", "scope", "lifetime", "time_created", "tags">>
      [] category = "empty_load_balancers" ->
             <<"load_balancer_name", "shape", "lifecycle_state", "ip_addresses",
               "time_created", "tags">>
      [] category = "permissive_security_lists" ->
             <<"security_list_name", "vcn_name", "permissive_rules_count",
               "permissive_rules", "tags">>

\* The paragraph a section holds when its category has no finding.
NoIssuesMessage ==
    [database_instances         |-> "Excellent! All dev/test database instances are using appropriate shapes.",
     compute_missing_automation |-> "All dev/test compute instances have automation tags configured!",
     oversized_compute          |-> "No oversized compute instances found in dev/test environments!",
     unattached_volumes         |-> "No unattached block volumes found!",
     unused_public_ips          |-> "No unused public IP addresses found!",
     empty_load_balancers       |-> "All load balancers have active backends!",
     permissive_security_lists  |-> "No overly permissive security lists found!"]

\* One <h2> section of the document: a table with a row per finding, or the paragraph.
HtmlSection(category, data) ==
    IF data # <<>>
    THEN [category |-> category, table |-> TRUE, message |-> <<>>,
          rows |-> [i \in DOMAIN data |->
                       [j \in DOMAIN HtmlColumns(category) |->
                           data[i][HtmlColumns(category)[j]]]]]
    ELSE [category |-> category, table |-> FALSE, rows |-> <<>>,
          message |-> Some(NoIssuesMessage[category])]

\* generate_html_report: what the written document holds.  total_counts feeds the seven
\* metrics of the summary block; total_issues is computed and then not used in the
\* document.  One section per category follows, in the order of the code.
generate_html_report(results) ==
    LET total_counts == [c \in Categories |-> Len(results[c])]
    IN  [type |-> "html", label |-> "OCI_DevTest_Resource_Report",
         summary |-> [i \in DOMAIN CategoryOrder |->
                         [category |-> CategoryOrder[i],
                          label |-> SummaryLabels[CategoryOrder[i]],
                          metric |-> total_counts[CategoryOrder[i]]]],
         sections |-> [i \in DOMAIN CategoryOrder |->
                          HtmlSection(CategoryOrder[i], results[CategoryOrder[i]])]]

-----------------------------------------------------------------------------
(* main *)

LifecycleStates == {"ACTIVE", "INACTIVE"}

\* The values of the --compartments option: absent (<<>>) or a list of ids.
ScopeArguments == UNION { [1..n -> CompartmentIds] : n \in 0..MaxScopes }

\* The environment may make another call fail.
CanFault == Cardinality(faults) < MaxFaults

Longest(inventory) ==
    CHOOSE n \in 0..(MaxList + Cardinality(InstancePool)) :
        /\ \A k \in Kinds : Len(inventory[k]) <= n
        /\ \E k \in Kinds : Len(inventory[k]) = n

\* The faults the environment may inject into one scanner invocation.
FaultChoices(compartment_id) ==
    {NoFault} \cup
    (IF CanFault
     THEN { [at |-> n, kind |-> k] :
              n \in 1..(Longest(inv[compartment_id]) + 2), k \in ExceptionKinds }
     ELSE {})

\* Neither classifier method has been called on resource_tags.
NoTagChecks == [dev_test |-> <<>>, automation |-> <<>>]

\* main's handlers ending the process with sys.exit(0).
ExitOnError_StatusZero ==
    /\ pc' = "done"
    /\ exit_code' = 0

\* main's handlers:  except KeyboardInterrupt  and  except Exception  both sys.exit(1).
ExitOnError ==
    /\ pc' = "done"
    /\ exit_code' = 1

Compartment(id, state) ==
    [id |-> id, name |-> "name-" \o id, lifecycle_state |-> state]

Init ==
    /\ compartment_ids \in ScopeArguments
    /\ inv = FixedInventories
    /\ pc = "init_chef"
    /\ compartments = <<>>
    /\ idx = 0
    /\ all_results = EmptyResults
    /\ comp_results = EmptyResults
    /\ files = <<>>
    /\ summary = <<>>
    /\ exit_code = 0
    /\ faults = {}
    /\ scan_log = <<>>
    /\ api_calls = <<>>
    /\ lookups = <<>>
    /\ resource_tags = TagsNone
    /\ tag_checks = NoTagChecks
    /\ failed_calls = <<>>
    /\ first_run = <<>>
    /\ analyzed = <<>>

\* chef = OCIDevTestCostChef(...): the configuration loads and the clients are built.
InitChef ==
    /\ pc = "init_chef"
    /\ pc' = "get_compartments"
    /\ UNCHANGED <<analyzed, first_run, failed_calls, resource_tags, tag_checks, compartment_ids, inv, compartments, idx, all_results, comp_results,
                   files, summary, exit_code, faults, scan_log, api_calls, lookups>>

\* _load_oci_config: from_file raises, the handler logs and calls sys.exit(1).
InitChefConfigFails ==
    /\ pc = "init_chef"
    /\ CanFault
    /\ faults' = faults \cup {<<0, "load_oci_config", "Exception">>}
    /\ pc' = "done"
    /\ exit_code' = 1
    /\ UNCHANGED <<analyzed, first_run, failed_calls, resource_tags, tag_checks, compartment_ids, inv, compartments, idx, all_results, comp_results,
                   files, summary, scan_log, api_calls, lookups>>

\* A client constructor raises: nothing in __init__ handles it, main's handler does.
InitChefClientFails ==
    /\ pc = "init_chef"
    /\ CanFault
    /\ faults' = faults \cup {<<0, "clients", "Exception">>}
    /\ ExitOnError
    /\ UNCHANGED <<analyzed, first_run, failed_calls, resource_tags, tag_checks, compartment_ids, inv, compartments, idx, all_results, comp_results,
                   files, summary, scan_log, api_calls, lookups>>

\* get_compartments with a list, re-raising the first lookup failure to main.
get_compartments_FailFast(ids, outcome, state) ==
    IF \E i \in DOMAIN ids : outcome[i] # "ok"
    THEN <<>>
    ELSE [i \in DOMAIN ids |-> Compartment(ids[i], state[ids[i]])]

\* get_compartments with an explicit list: each id is looked up in turn; a lookup that
\* raises is logged and its id left out, the others are appended in the order given.
get_compartments(ids, outcome, state) ==
    LET found == SelectSeq([i \in DOMAIN ids |->
                               <<outcome[i], Compartment(ids[i], state[ids[i]])>>],
                           LAMBDA p : p[1] = "ok")
    IN  [i \in DOMAIN found |-> found[i][2]]

\* main's test with a scope that is not ACTIVE counted as no scope at all.
NoCompartments_NoneActive(result) ==
    \A i \in DOMAIN result : result[i].lifecycle_state # "ACTIVE"

\* main's test  if not compartments  of what get_compartments returned.
NoCompartments(result) == result = <<>>

\* get_compartments with an explicit list, then main's test of its result.
GetCompartmentsListed ==
    /\ pc = "get_compartments"
    /\ compartment_ids # <<>>
    /\ \E outcome \in [DOMAIN compartment_ids -> {"ok", "Exception"}],
          state \in [CompartmentIds -> LifecycleStates] :
          LET result == get_compartments(compartment_ids, outcome, state)
          IN  /\ lookups' = outcome
              /\ compartments' = result
              /\ IF NoCompartments(result)
                 THEN pc' = "done" /\ exit_code' = 1 /\ idx' = idx
                 ELSE pc' = "loop" /\ exit_code' = exit_code /\ idx' = 1
    /\ UNCHANGED <<analyzed, first_run, failed_calls, resource_tags, tag_checks, compartment_ids, inv, all_results, comp_results, files, summary,
                   faults, scan_log, api_calls>>

\* get_compartments without a list: the tenancy root, or [] when it cannot be read.
GetCompartmentsRoot ==
    /\ pc = "get_compartments"
    /\ compartment_ids = <<>>
    /\ \E outcome \in {"ok", "Exception"}, state \in LifecycleStates :
          LET result == IF outcome = "ok" THEN <<Compartment(TenancyId, state)>> ELSE <<>>
          IN  /\ lookups' = <<outcome>>
              /\ compartments' = result
              /\ IF NoCompartments(result)
                 THEN pc' = "done" /\ exit_code' = 1 /\ idx' = idx
                 ELSE pc' = "loop" /\ exit_code' = exit_code /\ idx' = 1
    /\ UNCHANGED <<analyzed, first_run, failed_calls, resource_tags, tag_checks, compartment_ids, inv, all_results, comp_results, files, summary,
                   faults, scan_log, api_calls>>

\* The loop without its lifecycle test.
IsActive_Always(compartment) == TRUE

\* The test  compartment['lifecycle_state'] != 'ACTIVE'  of main's loop, negated.
IsActive(compartment) == compartment.lifecycle_state = "ACTIVE"

\* for compartment in compartments: an inactive compartment is skipped.
SkipInactive ==
    /\ pc = "loop"
    /\ idx <= Len(compartments)
    /\ ~IsActive(compartments[idx])
    /\ idx' = idx + 1
    /\ UNCHANGED <<analyzed, first_run, failed_calls, resource_tags, tag_checks, compartment_ids, inv, pc, compartments, all_results, comp_results,
                   files, summary, exit_code, faults, scan_log, api_calls, lookups>>

\* An active compartment: analyze_compartment starts with seven empty lists.
EnterCompartment ==
    /\ pc = "loop"
    /\ idx <= Len(compartments)
    /\ IsActive(compartments[idx])
    /\ comp_results' = EmptyResults
    /\ pc' = ScannerOrder[1]
    /\ UNCHANGED <<analyzed, first_run, failed_calls, resource_tags, tag_checks, compartment_ids, inv, compartments, idx, all_results,
                   files, summary, exit_code, faults, scan_log, api_calls, lookups>>

\* The loop is exhausted.
LoopDone ==
    /\ pc = "loop"
    /\ idx > Len(compartments)
    /\ pc' = "report"
    /\ UNCHANGED <<analyzed, first_run, failed_calls, resource_tags, tag_checks, compartment_ids, inv, compartments, idx, all_results, comp_results,
                   files, summary, exit_code, faults, scan_log, api_calls, lookups>>

\* What follows a scanner call in analyze_compartment: the scanner returned (having caught
\* an Exception or not) and its result is stored, or the exception leaves the scanner,
\* analyze_compartment and the loop, and reaches main's handlers.
ScannerReturns(scanner, out, stored, next_pc) ==
    /\ scan_log' = Append(scan_log, <<idx, scanner>>)
    /\ api_calls' = out.calls
    /\ failed_calls' = IF out.raised = "none" THEN failed_calls
                       ELSE Append(failed_calls, <<idx, scanner, out.calls[Len(out.calls)]>>)
    /\ faults' = IF out.raised = "none" THEN faults
                 ELSE faults \cup {<<idx, scanner, out.raised>>}
    /\ IF out.raised = "none" \/ CaughtByExceptException(out.raised)
       THEN /\ comp_results' = stored
            /\ pc' = next_pc
            /\ exit_code' = exit_code
       ELSE /\ comp_results' = comp_results
            /\ ExitOnError
    /\ UNCHANGED <<analyzed, first_run, resource_tags, tag_checks, compartment_ids, inv, compartments, idx, all_results, files, summary,
                   lookups>>

CheckDatabaseInstances ==
    /\ pc = "check_database_instances"
    /\ \E fault \in FaultChoices(compartments[idx].id) :
          LET out == check_database_instances(compartments[idx].id, fault)
          IN  ScannerReturns("check_database_instances", out,
                             [comp_results EXCEPT !["database_instances"] = out.results],
                             "check_compute_instances")

CheckComputeInstances ==
    /\ pc = "check_compute_instances"
    /\ \E fault \in FaultChoices(compartments[idx].id) :
          LET out == check_compute_instances(compartments[idx].id, fault)
          IN  ScannerReturns("check_compute_instances", out,
                             [comp_results EXCEPT
                                 !["compute_missing_automation"] = out.missing_automation,
                                 !["oversized_compute"] = out.oversized_instances],
                             "check_unattached_volumes")

CheckUnattachedVolumes ==
    /\ pc = "check_unattached_volumes"
    /\ \E fault \in FaultChoices(compartments[idx].id) :
          LET out == check_unattached_volumes(compartments[idx].id, fault)
          IN  ScannerReturns("check_unattached_volumes", out,
                             [comp_results EXCEPT !["unattached_volumes"] = out.results],
                             "check_unused_public_ips")

CheckUnusedPublicIps ==
    /\ pc = "check_unused_public_ips"
    /\ \E fault \in FaultChoices(compartments[idx].id) :
          LET out == check_unused_public_ips(compartments[idx].id, fault)
          IN  ScannerReturns("check_unused_public_ips", out,
                             [comp_results EXCEPT !["unused_public_ips"] = out.results],
                             "check_empty_load_balancers")

CheckEmptyLoadBalancers ==
    /\ pc = "check_empty_load_balancers"
    /\ \E fault \in FaultChoices(compartments[idx].id) :
          LET out == check_empty_load_balancers(compartments[idx].id, fault)
          IN  ScannerReturns("check_empty_load_balancers", out,
                             [comp_results EXCEPT !["empty_load_balancers"] = out.results],
                             "check_permissive_security_lists")

CheckPermissiveSecurityLists ==
    /\ pc = "check_permissive_security_lists"
    /\ \E fault \in FaultChoices(compartments[idx].id) :
          LET out == check_permissive_security_lists(compartments[idx].id, fault)
          IN  ScannerReturns("check_permissive_security_lists", out,
                             [comp_results EXCEPT !["permissive_security_lists"] = out.results],
                             "merge")

\* analyze_compartment returned: every category of all_results is extended.
MergeResults ==
    /\ pc = "merge"
    /\ all_results' = [c \in Categories |-> Extend(all_results[c], comp_results[c])]
    /\ analyzed' = Append(analyzed, [idx |-> idx, id |-> compartments[idx].id,
                                      results |-> comp_results])
    /\ idx' = idx + 1
    /\ pc' = "loop"
    /\ UNCHANGED <<first_run, failed_calls, resource_tags, tag_checks, compartment_ids, inv, compartments, comp_results, files, summary,
                   exit_code, faults, scan_log, api_calls, lookups>>

\* total_issues == 0: no report is written.
ReportNothing ==
    /\ pc = "report"
    /\ TotalIssues(all_results) = 0
    /\ pc' = "summary"
    /\ UNCHANGED <<analyzed, first_run, failed_calls, resource_tags, tag_checks, compartment_ids, inv, compartments, idx, all_results, comp_results,
                   files, summary, exit_code, faults, scan_log, api_calls, lookups>>

\* The files export_to_csv and generate_html_report write, in order.
ReportFiles(results) == Append(export_to_csv(results), generate_html_report(results))

\* total_issues > 0: the delimited files, then the consolidated document.
WriteReports ==
    /\ pc = "report"
    /\ TotalIssues(all_results) > 0
    /\ files' = ReportFiles(all_results)
    /\ pc' = "summary"
    /\ UNCHANGED <<analyzed, first_run, failed_calls, resource_tags, tag_checks, compartment_ids, inv, compartments, idx, all_results, comp_results,
                   summary, exit_code, faults, scan_log, api_calls, lookups>>

\* Opening the n-th report file raises: the files before it are written, the exception
\* reaches main's handlers.
WriteReportsFails ==
    /\ pc = "report"
    /\ TotalIssues(all_results) > 0
    /\ CanFault
    /\ \E n \in DOMAIN ReportFiles(all_results), kind \in ExceptionKinds :
          /\ files' = SubSeq(ReportFiles(all_results), 1, n - 1)
          /\ faults' = faults \cup {<<n, "write_report", kind>>}
    /\ ExitOnError
    /\ UNCHANGED <<analyzed, first_run, failed_calls, resource_tags, tag_checks, compartment_ids, inv, compartments, idx, all_results, comp_results,
                   summary, scan_log, api_calls, lookups>>

\* webbrowser.open raises: an Exception is caught and logged, an interrupt is not.
OpenBrowserFails ==
    /\ pc = "report"
    /\ TotalIssues(all_results) > 0
    /\ CanFault
    /\ files' = ReportFiles(all_results)
    /\ \E kind \in ExceptionKinds :
          /\ faults' = faults \cup {<<0, "webbrowser", kind>>}
          /\ IF CaughtByExceptException(kind)
             THEN pc' = "summary" /\ exit_code' = exit_code
             ELSE ExitOnError
    /\ UNCHANGED <<analyzed, first_run, failed_calls, resource_tags, tag_checks, compartment_ids, inv, compartments, idx, all_results, comp_results,
                   summary, scan_log, api_calls, lookups>>

\* The summary with the total line logged unconditionally.
SummaryLines_AlwaysTotal(results) ==
    [counts |-> [c \in Categories |-> Len(results[c])],
     total  |-> Some(TotalIssues(results))]

\* The "Summary:" lines: the seven counts, then the total when it is positive or the
\* "perfectly optimized" line when it is not.
SummaryLines(results) ==
    [counts |-> [c \in Categories |-> Len(results[c])],
     total  |-> IF TotalIssues(results) > 0 THEN Some(TotalIssues(results)) ELSE <<>>]

LogSummary ==
    /\ pc = "summary"
    /\ summary' = Some(SummaryLines(all_results))
    /\ pc' = "done"
    /\ UNCHANGED <<analyzed, first_run, failed_calls, resource_tags, tag_checks, compartment_ids, inv, compartments, idx, all_results, comp_results,
                   files, exit_code, faults, scan_log, api_calls, lookups>>

\* The user interrupts between two calls: KeyboardInterrupt reaches main's handler.
Interrupt ==
    /\ pc # "done"
    /\ CanFault
    /\ faults' = faults \cup {<<idx, "main", "KeyboardInterrupt">>}
    /\ ExitOnError
    /\ UNCHANGED <<analyzed, first_run, failed_calls, resource_tags, tag_checks, compartment_ids, inv, compartments, idx, all_results, comp_results,
                   files, summary, scan_log, api_calls, lookups>>

\* The scanners of analyze_compartment and the merge of their results.
Analyze ==
    \/ EnterCompartment
    \/ CheckDatabaseInstances
    \/ CheckComputeInstances
    \/ CheckUnattachedVolumes
    \/ CheckUnusedPublicIps
    \/ CheckEmptyLoadBalancers
    \/ CheckPermissiveSecurityLists
    \/ MergeResults

Next ==
    \/ InitChef
    \/ InitChefConfigFails
    \/ InitChefClientFails
    \/ GetCompartmentsListed
    \/ GetCompartmentsRoot
    \/ SkipInactive
    \/ LoopDone
    \/ Analyze
    \/ ReportNothing
    \/ WriteReports
    \/ WriteReportsFails
    \/ OpenBrowserFails
    \/ LogSummary
    \/ Interrupt

Spec == Init /\ [][Next]_vars

-----------------------------------------------------------------------------
(* The program run twice over the same inventory.                          *)

\* What a finished run leaves behind.
RunOutcome ==
    [exit_code |-> exit_code, compartments |-> compartments, lookups |-> lookups,
     faults |-> faults, failed_calls |-> failed_calls,
     all_results |-> all_results, files |-> files, summary |-> summary]

\* The process has ended normally, its pipeline run through; the program is started
\* once more with the same command line, against the same inventory.
RunAgain ==
    /\ pc = "done"
    /\ exit_code = 0
    /\ first_run = <<>>
    /\ first_run' = Some(RunOutcome)
    /\ pc' = "init_chef"
    /\ compartments' = <<>>
    /\ idx' = 0
    /\ all_results' = EmptyResults
    /\ comp_results' = EmptyResults
    /\ files' = <<>>
    /\ summary' = <<>>
    /\ exit_code' = 0
    /\ faults' = {}
    /\ scan_log' = <<>>
    /\ api_calls' = <<>>
    /\ lookups' = <<>>
    /\ failed_calls' = <<>>
    /\ analyzed' = <<>>
    /\ UNCHANGED <<compartment_ids, inv, resource_tags, tag_checks>>

\* The command lines of the runs made twice: without --compartments, and with the two
\* compartments "c1" and the tenancy root, in that order.
InitTwice ==
    /\ Init
    /\ compartment_ids \in { <<>>, <<"c1", TenancyId>> }

NextTwice ==
    \/ Next
    \/ RunAgain

SpecTwice == InitTwice /\ [][NextTwice]_vars

-----------------------------------------------------------------------------
(* The scan of one compartment, over every small inventory.                *)

\* The inventories that hold at most n resources, all of one scanner's kinds.
DrawnInventories(n) ==
    { [EmptyInventory EXCEPT !["db_systems"] = p[1], !["autonomous_dbs"] = p[2]] :
        p \in { q \in ListingsOver(DbSystemPool, n) \X ListingsOver(AutonomousDbPool, n) :
                  Len(q[1]) + Len(q[2]) <= n } }
    \cup UNION { { [EmptyInventory EXCEPT ![k] = l] : l \in ListingsOver(Pool(k), n) } :
                 k \in Kinds \ {"db_systems", "autonomous_dbs"} }

\* main has resolved one active compartment, "c1", and is about to analyse it.
InitScan ==
    /\ compartment_ids = <<"c1">>
    /\ \E drawn \in DrawnInventories(MaxList) :
          inv = [c \in CompartmentIds |-> IF c = "c1" THEN drawn ELSE EmptyInventory]
    /\ pc = "loop"
    /\ compartments = <<Compartment("c1", "ACTIVE")>>
    /\ idx = 1
    /\ all_results = EmptyResults
    /\ comp_results = EmptyResults
    /\ files = <<>>
    /\ summary = <<>>
    /\ exit_code = 0
    /\ faults = {}
    /\ scan_log = <<>>
    /\ api_calls = <<>>
    /\ lookups = <<"ok">>
    /\ resource_tags = TagsNone
    /\ tag_checks = NoTagChecks
    /\ failed_calls = <<>>
    /\ first_run = <<>>
    /\ analyzed = <<>>

NextScan ==
    \/ EnterCompartment
    \/ CheckDatabaseInstances
    \/ CheckComputeInstances
    \/ CheckUnattachedVolumes
    \/ CheckUnusedPublicIps
    \/ CheckEmptyLoadBalancers
    \/ CheckPermissiveSecurityLists
    \/ MergeResults

SpecScan == InitScan /\ [][NextScan]_vars

-----------------------------------------------------------------------------
(* The scan of one security list, over every small list of ingress rules.  *)

\* The most ingress rules the drawn security list holds.
MaxRules == 2

RuleSources == {AnySource, "10.0.0.0/8", "::/0"}

\* Rules without tcp_options (any protocol, ICMP or UDP here) and TCP rules whose
\* tcp_options carry no destination port range or one of a few ranges.
RuleUniverse ==
    { Rule(source, protocol, <<>>) : source \in RuleSources, protocol \in {"1", "17"} }
    \cup { Rule(source, "6", tcp_options) :
             source \in RuleSources,
             tcp_options \in { TcpAnyPort, TcpPorts(22, 22), TcpPorts(21, 23),
                               TcpPorts(3389, 3400), TcpPorts(443, 443) } }

\* The lists of at most n rules.
RuleLists(n) == UNION { [1..k -> RuleUniverse] : k \in 0..n }

\* The security list under scan: dev/test tagged, AVAILABLE, in an AVAILABLE VCN.
DrawnSecurityList(rules) == SecurityList("s1", "AVAILABLE", rules, TagsDev)

\* main has resolved one active compartment, "c1", whose only resources are one VCN
\* and its one security list.
InitRules ==
    /\ compartment_ids = <<"c1">>
    /\ \E rules \in RuleLists(MaxRules) :
          inv = [c \in CompartmentIds |->
                    IF c = "c1"
                    THEN [EmptyInventory EXCEPT
                              !["vcns"] = <<Vcn("n1", "AVAILABLE", <<DrawnSecurityList(rules)>>)>>]
                    ELSE EmptyInventory]
    /\ pc = "loop"
    /\ compartments = <<Compartment("c1", "ACTIVE")>>
    /\ idx = 1
    /\ all_results = EmptyResults
    /\ comp_results = EmptyResults
    /\ files = <<>>
    /\ summary = <<>>
    /\ exit_code = 0
    /\ faults = {}
    /\ scan_log = <<>>
    /\ api_calls = <<>>
    /\ lookups = <<"ok">>
    /\ resource_tags = TagsNone
    /\ tag_checks = NoTagChecks
    /\ failed_calls = <<>>
    /\ first_run = <<>>
    /\ analyzed = <<>>

SpecRules == InitRules /\ [][NextScan]_vars

-----------------------------------------------------------------------------
(* The tag classifier on its own, over every small tag set.                *)

\* The most tags (free-form and namespaced together) a drawn tag set holds.
MaxTags == 2

TagKeys ==
    { <<"o","w","n","e","r">>,
      <<"A","u","t","o","-","S","h","u","t","d","o","w","n","-","S","c","h","e","d","u","l","e">>,
      <<"s","t","a","g","i","n","g">> }

TagValues ==
    { <<"S","t","a","g","i","n","g">>,
      <<"p","r","o","d","u","c","t","i","o","n">>, <<"d","e","v","o","p","s">>,
      <<"s","c","h","e","d","u","l","e">> }

TagNamespaces == { <<"o","p","s">>, <<"a","u","t","o","m","a","t","i","o","n">> }

\* The mappings of exactly n tags, as sequences of <<key, value>> in every
\* enumeration order; a mapping holds a key once.
RECURSIVE TagMappings(_)
TagMappings(n) ==
    IF n = 0 THEN { <<>> }
    ELSE { m \in { Append(t, <<k, v>>) :
                     t \in TagMappings(n - 1), k \in TagKeys, v \in TagValues } :
             \A i, j \in DOMAIN m : m[i][1] = m[j][1] => i = j }

\* defined_tags of at most n tags: no namespace, one namespace, or both namespaces in
\* either order; a namespace may be empty.
DefinedTagSets(n) ==
    { <<>> }
    \cup { << <<ns, m>> >> :
             ns \in TagNamespaces, m \in UNION { TagMappings(k) : k \in 0..n } }
    \cup UNION { { << <<ns[1], m1>>, <<ns[2], m2>> >> :
                     ns \in { q \in TagNamespaces \X TagNamespaces : q[1] # q[2] },
                     m1 \in TagMappings(k[1]), m2 \in TagMappings(k[2]) } :
                 k \in { q \in (0..n) \X (0..n) : q[1] + q[2] <= n } }

\* The tag sets of at most n tags.
TagSets(n) ==
    UNION { { [freeform_tags |-> f, defined_tags |-> d] :
                f \in TagMappings(k), d \in DefinedTagSets(n - k) } :
            k \in 0..n }

InitTags ==
    /\ resource_tags \in TagSets(MaxTags)
    /\ tag_checks = NoTagChecks
    /\ failed_calls = <<>>
    /\ first_run = <<>>
    /\ analyzed = <<>>
    /\ pc = "classifier"
    /\ compartment_ids = <<>>
    /\ inv = [c \in CompartmentIds |-> EmptyInventory]
    /\ compartments = <<>>
    /\ idx = 0
    /\ all_results = EmptyResults
    /\ comp_results = EmptyResults
    /\ files = <<>>
    /\ summary = <<>>
    /\ exit_code = 0
    /\ faults = {}
    /\ scan_log = <<>>
    /\ api_calls = <<>>
    /\ lookups = <<>>

\* A call of is_dev_test_resource on the tag set.
IsDevTestResource ==
    /\ pc = "classifier"
    /\ tag_checks.dev_test = <<>>
    /\ tag_checks' = [tag_checks EXCEPT !.dev_test = Some(is_dev_test_resource(resource_tags))]
    /\ UNCHANGED <<analyzed, first_run, failed_calls, resource_tags, compartment_ids, inv, pc, compartments, idx, all_results,
                   comp_results, files, summary, exit_code, faults, scan_log, api_calls,
                   lookups>>

\* A call of has_automation_tags on the tag set.
HasAutomationTags ==
    /\ pc = "classifier"
    /\ tag_checks.automation = <<>>
    /\ tag_checks' = [tag_checks EXCEPT !.automation = Some(has_automation_tags(resource_tags))]
    /\ UNCHANGED <<analyzed, first_run, failed_calls, resource_tags, compartment_ids, inv, pc, compartments, idx, all_results,
                   comp_results, files, summary, exit_code, faults, scan_log, api_calls,
                   lookups>>

NextTags ==
    \/ IsDevTestResource
    \/ HasAutomationTags

SpecTags == InitTags /\ [][NextTags]_vars

-----------------------------------------------------------------------------
(* Properties. *)

Last(seq) == seq[Len(seq)]

Range(seq) == { seq[i] : i \in DOMAIN seq }

\* The category, or categories, a scanner fills.
CategoriesOf(scanner) ==
    CASE scanner = "check_database_instances"        -> {"database_instances"}
      [] scanner = "check_compute_instances"         -> {"compute_missing_automation",
                                                         "oversized_compute"}
      [] scanner = "check_unattached_volumes"        -> {"unattached_volumes"}
      [] scanner = "check_unused_public_ips"         -> {"unused_public_ips"}
      [] scanner = "check_empty_load_balancers"      -> {"empty_load_balancers"}
      [] scanner = "check_permissive_security_lists" -> {"permissive_security_lists"}

\* Where analyze_compartment stands once a scanner has returned.
PcAfter(scanner) ==
    IF scanner = Last(ScannerOrder) THEN "merge"
    ELSE ScannerOrder[(CHOOSE i \in DOMAIN ScannerOrder : ScannerOrder[i] = scanner) + 1]

\* The security lists of a compartment's VCNs, VCN by VCN.
RECURSIVE SecurityListsOf(_)
SecurityListsOf(vcns) ==
    IF vcns = <<>> THEN <<>>
    ELSE Head(vcns).security_lists \o SecurityListsOf(Tail(vcns))

\* The resources a category's findings come from, in the order the listings return them.
SourceListing(category, compartment_id) ==
    CASE category = "database_instances" ->
             inv[compartment_id].db_systems \o inv[compartment_id].autonomous_dbs
      [] category \in {"compute_missing_automation", "oversized_compute"} ->
             inv[compartment_id].instances
      [] category = "unattached_volumes"        -> inv[compartment_id].volumes
      [] category = "unused_public_ips"         -> inv[compartment_id].public_ips
      [] category = "empty_load_balancers"      -> inv[compartment_id].load_balancers
      [] category = "permissive_security_lists" -> SecurityListsOf(inv[compartment_id].vcns)

\* The full predicate of a category, on a resource of its source listing.
FullPredicate(category, r) ==
    /\ is_dev_test_resource(r)
    /\ CASE category = "database_instances" ->
                /\ IF "shape" \in DOMAIN r
                   THEN r.shape \in production_db_shapes
                   ELSE r.cpu_core_count >= ProductionCoreCount
                /\ r.lifecycle_state = "AVAILABLE"
         [] category = "compute_missing_automation" ->
                /\ ~has_automation_tags(r)
                /\ r.lifecycle_state \in {"RUNNING", "STOPPED"}
         [] category = "oversized_compute" ->
                /\ r.shape \in oversized_compute_shapes
                /\ r.lifecycle_state \in {"RUNNING", "STOPPED"}
         [] category = "unattached_volumes" ->
                /\ r.attachments = <<>>
                /\ r.lifecycle_state = "AVAILABLE"
         [] category = "unused_public_ips" ->
                /\ r.assigned_entity_id = <<>>
                /\ r.lifecycle_state = "AVAILABLE"
         [] category = "empty_load_balancers" ->
                /\ \A i \in DOMAIN r.backend_sets : r.backend_sets[i][2].backends = <<>>
                /\ r.lifecycle_state = "ACTIVE"
         [] category = "permissive_security_lists" ->
                /\ \E i \in DOMAIN r.ingress_security_rules :
                       RulePermissive(r.ingress_security_rules[i])
                /\ r.lifecycle_state = "AVAILABLE"

\* Every finding of findings comes from a resource of the category's source listing that
\* satisfies the category's full predicate.
AllFullMatches(category, findings) ==
    \A i \in DOMAIN findings :
        \E r \in Range(SourceListing(category, findings[i].compartment_id)) :
            /\ r.id = findings[i].resource_id
            /\ \A q \in Range(SourceListing(category, findings[i].compartment_id)) :
                   q.id = r.id => FullPredicate(category, q)

\* C1: every finding held in any of the seven category collections, while a compartment
\* is analysed and after the merge, was derived from a resource that satisfies the
\* category's full predicate (dev/test tag, category condition and lifecycle status);
\* no partially matching resource appears, whatever the listing and whatever call fails.
C1_FindingsSatisfyFullPredicate ==
    \A category \in Categories :
        /\ AllFullMatches(category, comp_results[category])
        /\ AllFullMatches(category, all_results[category])

\* A merged collection holds a finding although the compartment also lists a resource of
\* that category that matches only in part.
C1_Witness ==
    /\ pc = "loop" /\ idx = 2
    /\ \E category \in Categories :
          /\ all_results[category] # <<>>
          /\ \E r \in Range(SourceListing(category, "c1")) :
                 is_dev_test_resource(r) /\ ~FullPredicate(category, r)

\* What a scanner returns for a category when no call fails.
CleanScan(category, compartment_id) ==
    CASE category = "database_instances" ->
             check_database_instances(compartment_id, NoFault).results
      [] category = "compute_missing_automation" ->
             check_compute_instances(compartment_id, NoFault).missing_automation
      [] category = "oversized_compute" ->
             check_compute_instances(compartment_id, NoFault).oversized_instances
      [] category = "unattached_volumes" ->
             check_unattached_volumes(compartment_id, NoFault).results
      [] category = "unused_public_ips" ->
             check_unused_public_ips(compartment_id, NoFault).results
      [] category = "empty_load_balancers" ->
             check_empty_load_balancers(compartment_id, NoFault).results
      [] category = "permissive_security_lists" ->
             check_permissive_security_lists(compartment_id, NoFault).results

\* The scanners a compartment position has had invoked.
Scanned(i) == { s \in Scanners : <<i, s>> \in Range(scan_log) }

\* Some call failed, and every failure is an Exception raised inside a scanner.
ScannerExceptionsOnly ==
    /\ faults # {}
    /\ \A f \in faults : f[2] \in Scanners /\ f[3] = "Exception"

\* C2: an Exception raised by a listing or secondary call of one category in one scope
\* never prevents the other categories of that scope, nor any category of a later scope,
\* from being scanned: the run still ends normally, every scanner was invoked for every
\* active scope, and what every scanner without a failure found is in the merged
\* collections.
C2_FailureIsolated ==
    ScannerExceptionsOnly =>
        /\ pc = "done" => (exit_code = 0 /\ summary # <<>>)
        /\ pc \in {"report", "summary", "done"} =>
               \A i \in DOMAIN compartments :
                   compartments[i].lifecycle_state = "ACTIVE" =>
                       /\ Scanned(i) = Scanners
                       /\ \A s \in Scanners :
                              <<i, s, "Exception">> \notin faults =>
                                  \A category \in CategoriesOf(s) :
                                      Range(CleanScan(category, compartments[i].id))
                                          \subseteq Range(all_results[category])

\* The database scan of the first of two active scopes failed; the run finished and the
\* other categories hold findings.
C2_Witness ==
    /\ pc = "done" /\ exit_code = 0
    /\ <<1, "check_database_instances", "Exception">> \in faults
    /\ Len(compartments) = 2
    /\ \A i \in DOMAIN compartments : compartments[i].lifecycle_state = "ACTIVE"
    /\ all_results["unattached_volumes"] # <<>>
    /\ all_results["permissive_security_lists"] # <<>>

\* The secondary per-resource call of a scanner.
SecondaryCall(scanner) ==
    CASE scanner = "check_unattached_volumes"        -> "list_volume_attachments"
      [] scanner = "check_empty_load_balancers"      -> "get_load_balancer"
      [] scanner = "check_permissive_security_lists" -> "list_security_lists"
      [] OTHER -> "none"

\* The listing whose members a scanner's secondary call is made for.
PrimaryListing(scanner, compartment_id) ==
    CASE scanner = "check_unattached_volumes"        -> inv[compartment_id].volumes
      [] scanner = "check_empty_load_balancers"      -> inv[compartment_id].load_balancers
      [] scanner = "check_permissive_security_lists" -> inv[compartment_id].vcns
      [] OTHER -> <<>>

\* The position, in the scanner's primary listing, of the resource a secondary call names.
CallPosition(scanner, compartment_id, call) ==
    CHOOSE i \in DOMAIN PrimaryListing(scanner, compartment_id) :
        PrimaryListing(scanner, compartment_id)[i].id = call[2]

\* The position, in the scanner's primary listing, of the resource a finding comes from
\* (for a security list, the position of its VCN).
FindingPosition(scanner, compartment_id, finding) ==
    CHOOSE i \in DOMAIN PrimaryListing(scanner, compartment_id) :
        IF scanner = "check_permissive_security_lists"
        THEN PrimaryListing(scanner, compartment_id)[i].display_name = finding.vcn_name
        ELSE PrimaryListing(scanner, compartment_id)[i].id = finding.resource_id

\* C3: within the block-volume, load-balancer and security-list scanners, a failure of
\* the secondary call for one resource does not abort the scan of the remaining
\* resources: every later resource of the listing that satisfies the predicate still
\* yields a finding.
C3_SecondaryFailureSparesLaterResources ==
    \A s \in {"check_unattached_volumes", "check_empty_load_balancers",
              "check_permissive_security_lists"} :
        ( /\ pc = PcAfter(s)
          /\ <<idx, s, "Exception">> \in faults
          /\ Last(api_calls)[1] = SecondaryCall(s) ) =>
            \A category \in CategoriesOf(s) :
                \A f \in Range(CleanScan(category, compartments[idx].id)) :
                    FindingPosition(s, compartments[idx].id, f)
                        > CallPosition(s, compartments[idx].id, Last(api_calls))
                    => f \in Range(comp_results[category])

FirstListingCalls ==
    {"list_db_systems", "list_instances", "list_volumes", "list_public_ips",
     "list_load_balancers", "list_vcns"}

\* Whether the resource of a finding was processed before the call that failed.
ProcessedBefore(scanner, compartment_id, finding, failed_call) ==
    IF failed_call[1] \in FirstListingCalls THEN FALSE
    ELSE IF failed_call[1] = "list_autonomous_databases"
    THEN finding.resource_type = "DB System"
    ELSE FindingPosition(scanner, compartment_id, finding)
             < CallPosition(scanner, compartment_id, failed_call)

C4_Step ==
    \A s \in Scanners :
        <<idx, s, "Exception">> \in faults' \ faults =>
            /\ pc' = PcAfter(s)
            /\ \A category \in CategoriesOf(s) :
                   comp_results'[category] =
                       SelectSeq(CleanScan(category, compartments[idx].id),
                                 LAMBDA f : ProcessedBefore(s, compartments[idx].id, f,
                                                            Last(api_calls')))
            /\ \A category \in Categories \ CategoriesOf(s) :
                   comp_results'[category] = comp_results[category]
            /\ all_results' = all_results

ComputeScanReturned ==
    /\ pc = PcAfter("check_compute_instances")
    /\ \A kind \in ExceptionKinds : <<idx, "check_compute_instances", kind>> \notin faults

CountOf(listing, test(_)) == Len(SelectSeq(listing, test))

\* C5 as claimed: for a listing of N instances of which exactly K lack any automation-tag
\* key and exactly M have an oversized shape, the automation-gap collection has exactly K
\* entries and the oversized collection exactly M, and the listing call is issued once.
C5_CountsOverWholeListing ==
    ComputeScanReturned =>
        /\ Len(comp_results["compute_missing_automation"]) =
               CountOf(inv[compartments[idx].id].instances,
                       LAMBDA r : ~has_automation_tags(r))
        /\ Len(comp_results["oversized_compute"]) =
               CountOf(inv[compartments[idx].id].instances,
                       LAMBDA r : r.shape \in oversized_compute_shapes)
        /\ api_calls = << <<"list_instances", compartments[idx].id>> >>

\* C5, amended: K and M are counted among the listed instances that carry a dev/test tag
\* and are RUNNING or STOPPED.  When the listing call returns, the automation-gap
\* collection has exactly K entries and the oversized collection exactly M; failing or
\* not, the scan issues the listing call exactly once.
C5_CountsOverConsideredInstances ==
    /\ ComputeScanReturned =>
           /\ Len(comp_results["compute_missing_automation"]) =
                  CountOf(inv[compartments[idx].id].instances,
                          LAMBDA r : /\ is_dev_test_resource(r)
                                     /\ r.lifecycle_state \in {"RUNNING", "STOPPED"}
                                     /\ ~has_automation_tags(r))
           /\ Len(comp_results["oversized_compute"]) =
                  CountOf(inv[compartments[idx].id].instances,
                          LAMBDA r : /\ is_dev_test_resource(r)
                                     /\ r.lifecycle_state \in {"RUNNING", "STOPPED"}
                                     /\ r.shape \in oversized_compute_shapes)
    /\ pc = PcAfter("check_compute_instances") =>
           api_calls = << <<"list_instances", compartments[idx].id>> >>

\* Two listed instances, both oversized, one of them without automation tags: K = 1, M = 2.
C5_Witness ==
    /\ ComputeScanReturned
    /\ Len(inv[compartments[idx].id].instances) = 2
    /\ Len(comp_results["compute_missing_automation"]) = 1
    /\ Len(comp_results["oversized_compute"]) = 2


\* What the environment did to a run, in the terms of the exit status contract.
ConfigurationFailed == <<0, "load_oci_config", "Exception">> \in faults
RootUnresolved == compartment_ids = <<>> /\ lookups = <<"Exception">>
NoScopeAccessible ==
    /\ compartment_ids # <<>>
    /\ lookups # <<>>
    /\ \A i \in DOMAIN lookups : lookups[i] = "Exception"
UserInterrupted == \E f \in faults : f[3] = "KeyboardInterrupt"
\* An Exception raised where no handler but main's stands: building the clients,
\* writing a report file.
UnhandledError ==
    \E f \in faults : f[3] = "Exception" /\ f[2] \in {"clients", "write_report"}

\* C6: the exit status is 1 exactly when the configuration fails to load, the account
\* root cannot be resolved, no scope is accessible, the user interrupts or an unhandled
\* error escapes; in every other run, also when scanners failed or nothing was found,
\* it is 0.
C6_ExitStatus ==
    pc = "done" =>
        exit_code = IF \/ ConfigurationFailed
                       \/ RootUnresolved
                       \/ NoScopeAccessible
                       \/ UserInterrupted
                       \/ UnhandledError
                    THEN 1 ELSE 0

\* A run in which a scanner failed and nothing was found ends with status 0.
C6_Witness ==
    /\ pc = "done" /\ exit_code = 0
    /\ ScannerExceptionsOnly
    /\ \A c \in Categories : all_results[c] = <<>>

\* The loop over the compartments has run to its end.
ScanningCompleted == compartments # <<>> /\ idx > Len(compartments)

ReportWriteFailed == \E f \in faults : f[2] = "write_report"

\* C7 as claimed: every run that completes scanning logs a final summary with the seven
\* category counts and a grand total, also when the grand total is 0.
C7_SummaryAlwaysWithTotal ==
    (pc = "done" /\ ScanningCompleted /\ ~UserInterrupted) =>
        /\ summary # <<>>
        /\ summary[1].total # <<>>

\* C7, amended: every run that completes scanning, and is ended neither by an interrupt
\* nor by a failing report write, logs a final summary with the count of each of the
\* seven categories, whether or not reports were generated; the grand total is logged
\* only when it is positive.
C7_SummaryCountsAndPositiveTotal ==
    (pc = "done" /\ ScanningCompleted /\ ~UserInterrupted /\ ~ReportWriteFailed) =>
        /\ summary # <<>>
        /\ DOMAIN summary[1].counts = Categories
        /\ \A c \in Categories : summary[1].counts[c] = Len(all_results[c])
        /\ LET total == Len(all_results["database_instances"])
                        + Len(all_results["compute_missing_automation"])
                        + Len(all_results["oversized_compute"])
                        + Len(all_results["unattached_volumes"])
                        + Len(all_results["unused_public_ips"])
                        + Len(all_results["empty_load_balancers"])
                        + Len(all_results["permissive_security_lists"])
           IN  summary[1].total = IF total > 0 THEN <<total>> ELSE <<>>

\* A compartment was scanned, nothing was found, no report was written, and the summary
\* was logged with its seven counts and no total.
C7_Witness ==
    /\ pc = "done"
    /\ scan_log # <<>>
    /\ files = <<>>
    /\ summary # <<>>
    /\ summary[1].total = <<>>
    /\ \A c \in Categories : summary[1].counts[c] = 0

\* The report step is behind: the summary is next, or logged.
ReportStepPassed == pc = "summary" \/ (pc = "done" /\ summary # <<>>)

FilesOfType(type) == SelectSeq(files, LAMBDA f : f.type = type)

\* C8: reports are generated iff the grand total of findings is positive; when they are,
\* exactly one delimited file is written per non-empty category, none for an empty one,
\* and exactly one consolidated document.
C8_ReportFiles ==
    /\ files # <<>> => \E c \in Categories : all_results[c] # <<>>
    /\ ReportStepPassed =>
           IF \E c \in Categories : all_results[c] # <<>>
           THEN /\ \A c \in Categories :
                       Len(SelectSeq(FilesOfType("csv"), LAMBDA f : f.category = c))
                           = IF all_results[c] # <<>> THEN 1 ELSE 0
                /\ Len(FilesOfType("csv"))
                       = Cardinality({c \in Categories : all_results[c] # <<>>})
                /\ Len(FilesOfType("html")) = 1
                /\ Len(files) = Len(FilesOfType("csv")) + 1
           ELSE files = <<>>

\* One matching database system and nothing else: one delimited file, the database
\* category's, and the consolidated document.
C8_Witness ==
    /\ pc = "done"
    /\ faults = {}
    /\ Len(all_results["database_instances"]) = 1
    /\ \A c \in Categories \ {"database_instances"} : all_results[c] = <<>>
    /\ Len(files) = 2
    /\ files[1].type = "csv" /\ files[1].category = "database_instances"
    /\ files[2].type = "html"

\* What the scanners return, failure free, for the active compartments from position i on.
RECURSIVE ExpectedFrom(_, _)
ExpectedFrom(category, i) ==
    IF i > Len(compartments) THEN <<>>
    ELSE (IF compartments[i].lifecycle_state = "ACTIVE"
          THEN CleanScan(category, compartments[i].id) ELSE <<>>)
         \o ExpectedFrom(category, i + 1)

\* C9: the aggregator scans a resolved scope iff its lifecycle status is ACTIVE: for an
\* active scope every scanner is invoked and the collections are extended with its
\* output; a non-active scope is skipped (no scanner is invoked for it, no finding
\* carries its id) without aborting the run or affecting the scopes after it.
C9_ActiveScopesOnly ==
    /\ \A i \in DOMAIN compartments :
           Scanned(i) # {} => compartments[i].lifecycle_state = "ACTIVE"
    /\ \A c \in Categories :
           \A f \in Range(all_results[c]) \cup Range(comp_results[c]) :
               \E i \in DOMAIN compartments :
                   /\ compartments[i].id = f.compartment_id
                   /\ compartments[i].lifecycle_state = "ACTIVE"
    /\ pc \in {"report", "summary"} =>
           \A i \in DOMAIN compartments :
               Scanned(i) = IF compartments[i].lifecycle_state = "ACTIVE"
                            THEN Scanners ELSE {}
    /\ (faults = {} /\ pc \in {"report", "summary", "done"} /\ compartments # <<>>) =>
           \A c \in Categories : all_results[c] = ExpectedFrom(c, 1)
    /\ (faults = {} /\ pc = "done" /\ compartments # <<>>) =>
           (exit_code = 0 /\ summary # <<>>)

\* An inactive scope was skipped and the active scope after it was scanned and merged.
C9_Witness ==
    /\ pc = "report"
    /\ Len(compartments) = 2
    /\ compartments[1].lifecycle_state = "INACTIVE"
    /\ compartments[2].lifecycle_state = "ACTIVE"
    /\ Scanned(1) = {} /\ Scanned(2) = Scanners
    /\ all_results["unattached_volumes"] # <<>>

\* The position of a finding's resource in the source listing of its category.
ListingPosition(category, finding) ==
    CHOOSE i \in DOMAIN SourceListing(category, finding.compartment_id) :
        SourceListing(category, finding.compartment_id)[i].id = finding.resource_id

\* The position of a finding's scope among the resolved scopes (ids distinct).
ScopePosition(finding) ==
    CHOOSE i \in DOMAIN compartments : compartments[i].id = finding.compartment_id

DistinctScopes ==
    \A i, j \in DOMAIN compartments :
        compartments[i].id = compartments[j].id => i = j

C10_Step ==
    IF pc = "merge" /\ pc' = "loop"
    THEN \A c \in Categories : all_results'[c] = all_results[c] \o comp_results[c]
    ELSE all_results' = all_results

\* C10: in every category collection the findings are grouped by scope, in the order
\* the scopes were resolved, and within one scope they are in the order the source
\* listing returned the resources: a scope's findings are appended after those of the
\* scopes before it, each scanner emits in listing order, and no step reorders.
C10_ScopeThenListingOrder ==
    /\ [][C10_Step]_vars
    /\ [](\A c \in Categories :
             \A a, b \in DOMAIN comp_results[c] :
                 a < b => ListingPosition(c, comp_results[c][a])
                              < ListingPosition(c, comp_results[c][b]))
    /\ [](DistinctScopes =>
             \A c \in Categories :
                 \A a, b \in DOMAIN all_results[c] :
                     a < b =>
                         \/ ScopePosition(all_results[c][a]) < ScopePosition(all_results[c][b])
                         \/ /\ ScopePosition(all_results[c][a]) = ScopePosition(all_results[c][b])
                            /\ ListingPosition(c, all_results[c][a])
                                   < ListingPosition(c, all_results[c][b]))

\* Two scopes, resolved as c1 then the tenancy root: the database findings are c1's,
\* then the root's database system, then the root's autonomous database.
C10_Witness ==
    /\ pc = "report"
    /\ Len(compartments) = 2
    /\ compartments[1].id = "c1" /\ compartments[2].id = TenancyId
    /\ [i \in DOMAIN all_results["database_instances"] |->
           all_results["database_instances"][i].resource_id] = <<"d9", "d1", "a1">>


\* The ids given on the command line whose lookup succeeded, from position i on.
RECURSIVE AccessibleIdsFrom(_)
AccessibleIdsFrom(i) ==
    IF i > Len(compartment_ids) THEN <<>>
    ELSE (IF lookups[i] = "ok" THEN <<compartment_ids[i]>> ELSE <<>>)
         \o AccessibleIdsFrom(i + 1)

\* C11: with an explicit list of scope ids, each id whose lookup fails is dropped and
\* every id whose lookup succeeds is returned, in the order given; the run aborts with
\* status 1 at this point only when no id is accessible.
C11_FailingIdsDropped ==
    (compartment_ids # <<>> /\ lookups # <<>>) =>
        /\ [i \in DOMAIN compartments |-> compartments[i].id] = AccessibleIdsFrom(1)
        /\ (\A i \in DOMAIN lookups : lookups[i] # "ok") =>
               (pc = "done" /\ exit_code = 1 /\ scan_log = <<>>)
        /\ ((\E i \in DOMAIN lookups : lookups[i] = "ok") /\ faults = {}) =>
               (exit_code = 0 /\ pc # "get_compartments")

\* Two ids were given, the lookup of the first failed, and the run went on with the
\* second alone, to the end.
C11_Witness ==
    /\ Len(compartment_ids) = 2
    /\ lookups = <<"Exception", "ok">>
    /\ Len(compartments) = 1
    /\ compartments[1].id = compartment_ids[2]
    /\ pc = "done" /\ exit_code = 0

\* Two characters that are the same letter, in whichever case, or the same character.
SameIgnoringCase(a, b) ==
    \/ a = b
    \/ \E n \in DOMAIN UpperCase : {a, b} = {UpperCase[n], LowerCase[n]}

\* String s is word w, case-insensitively and as a whole.
EqualsIgnoringCase(s, w) ==
    /\ Len(s) = Len(w)
    /\ \A i \in DOMAIN s : SameIgnoringCase(s[i], w[i])

\* Word w occurs in string s, case-insensitively.
OccursIgnoringCase(w, s) ==
    \E start \in 0..(Len(s) - Len(w)) :
        \A i \in DOMAIN w : SameIgnoringCase(s[start + i], w[i])

\* The free-form tags and the tags of every namespace of a tag set, as a set of
\* <<key, value>>.
TagsOf(tags) ==
    Range(tags.freeform_tags)
    \cup UNION { Range(tags.defined_tags[n][2]) : n \in DOMAIN tags.defined_tags }

DevTestWords ==
    { <<"d","e","v">>, <<"t","e","s","t">>, <<"d","e","v","e","l","o","p","m","e","n","t">>,
      <<"t","e","s","t","i","n","g">>, <<"s","t","a","g","i","n","g">>, <<"q","a">> }

\* C12: is_dev_test returns true iff some free-form or namespaced tag value equals,
\* case-insensitively and as a whole string, one of dev, test, development, testing,
\* staging, qa; so it is false for an empty tag set and for one whose only value is
\* "production", and neither tag keys nor namespace names bear on the result.
C12_DevTestByWholeValue ==
    tag_checks.dev_test # <<>> =>
        tag_checks.dev_test[1] =
            (\E t \in TagsOf(resource_tags) : \E w \in DevTestWords :
                 EqualsIgnoringCase(t[2], w))

\* A namespaced value "Staging" beside a free-form value "devops", which only contains
\* a dev/test word: the tag set is dev/test.
C12_Witness ==
    /\ resource_tags.freeform_tags = << << <<"o","w","n","e","r">>, <<"d","e","v","o","p","s">> >> >>
    /\ resource_tags.defined_tags = << << <<"o","p","s">>, << << <<"s","t","a","g","i","n","g">>, <<"S","t","a","g","i","n","g">> >> >> >> >>
    /\ tag_checks.dev_test = <<TRUE>>

AutomationWords ==
    { <<"a","u","t","o","-","s","h","u","t","d","o","w","n">>, <<"a","u","t","o","-","s","t","a","r","t">>,
      <<"s","c","h","e","d","u","l","e">>, <<"s","t","o","p","-","s","t","a","r","t">>,
      <<"a","u","t","o","m","a","t","i","o","n">> }

\* C13: has_automation_tag returns true iff some tag key, free-form or inside any
\* namespace, contains case-insensitively one of auto-shutdown, auto-start, schedule,
\* stop-start, automation; tag values and namespace names do not bear on the result.
C13_AutomationByKeySubstring ==
    tag_checks.automation # <<>> =>
        tag_checks.automation[1] =
            (\E t \in TagsOf(resource_tags) : \E w \in AutomationWords :
                 OccursIgnoringCase(w, t[1]))

\* The key "Auto-Shutdown-Schedule" inside the namespace "ops" is an automation tag.
C13_Witness ==
    /\ resource_tags.freeform_tags = <<>>
    /\ resource_tags.defined_tags =
           << << <<"o","p","s">>, << << <<"A","u","t","o","-","S","h","u","t","d","o","w","n","-","S","c","h","e","d","u","l","e">>, <<"p","r","o","d","u","c","t","i","o","n">> >> >> >> >>
    /\ tag_checks.automation = <<TRUE>>

\* The security-list scanner has returned, without a failing call, for the compartment.
SecurityScanReturned ==
    /\ pc = PcAfter("check_permissive_security_lists")
    /\ \A kind \in ExceptionKinds :
           <<idx, "check_permissive_security_lists", kind>> \notin faults

\* The ingress rules of the one security list of compartment "c1".
ScannedRules == inv["c1"].vcns[1].security_lists[1].ingress_security_rules

\* C14: a dev/test-tagged, Available security list in an Available VCN whose one ingress
\* rule has source 0.0.0.0/0 and no port restriction is flagged with a matched-rule
\* count of exactly 1; with the rule's source 10.0.0.0/8 instead there is no finding.
C14_OpenRuleFlaggedOnce ==
    (SecurityScanReturned /\ Len(ScannedRules) = 1 /\ ScannedRules[1].tcp_options = <<>>) =>
        /\ ScannedRules[1].source = "0.0.0.0/0" =>
               /\ Len(comp_results["permissive_security_lists"]) = 1
               /\ comp_results["permissive_security_lists"][1].resource_id = "s1"
               /\ comp_results["permissive_security_lists"][1].permissive_rules_count = 1
        /\ ScannedRules[1].source = "10.0.0.0/8" =>
               comp_results["permissive_security_lists"] = <<>>

\* The list with the one open rule has been scanned and flagged, one rule matched.
C14_Witness ==
    /\ SecurityScanReturned
    /\ Len(ScannedRules) = 1
    /\ ScannedRules[1].source = "0.0.0.0/0" /\ ScannedRules[1].tcp_options = <<>>
    /\ Len(comp_results["permissive_security_lists"]) = 1
    /\ comp_results["permissive_security_lists"][1].permissive_rules_count = 1

\* A rule as C20 counts it.
CountedAsPermissive(rule) ==
    /\ rule.source = "0.0.0.0/0"
    /\ IF rule.tcp_options = <<>> THEN TRUE
       ELSE IF rule.tcp_options[1].destination_port_range = <<>> THEN FALSE
       ELSE rule.tcp_options[1].destination_port_range[1].min \in {22, 3389}

\* C20: an ingress rule is counted as permissive iff its source is exactly 0.0.0.0/0 and
\* either it has no tcp_options, whatever its protocol, or its tcp_options carry a
\* destination port range whose min is 22 or 3389; the max is not consulted and
\* tcp_options without a range never count.  The list is flagged iff some rule counts,
\* and its matched-rule count is the number of rules that count.
C20_PermissiveRule ==
    SecurityScanReturned =>
        LET counted == CountOf(ScannedRules, CountedAsPermissive)
        IN  IF counted = 0
            THEN comp_results["permissive_security_lists"] = <<>>
            ELSE /\ Len(comp_results["permissive_security_lists"]) = 1
                 /\ comp_results["permissive_security_lists"][1].permissive_rules_count
                        = counted

\* Of a rule opening ports 3389-3400 and a rule with tcp_options but no port range,
\* both from 0.0.0.0/0, one is counted.
C20_Witness ==
    /\ SecurityScanReturned
    /\ ScannedRules = << Rule(AnySource, "6", TcpPorts(3389, 3400)),
                         Rule(AnySource, "6", TcpAnyPort) >>
    /\ Len(comp_results["permissive_security_lists"]) = 1
    /\ comp_results["permissive_security_lists"][1].permissive_rules_count = 1

\* The volume scanner has returned for the compartment, failed or not.
VolumeScanEnded == pc = PcAfter("check_unattached_volumes")

VolumeScanFailed ==
    \E kind \in ExceptionKinds : <<idx, "check_unattached_volumes", kind>> \in faults

\* The attachment lookup of a volume was issued; it returned, unless it is the call
\* that failed, the last one of a failed scan.
LookupIssued(volume) ==
    \E i \in DOMAIN api_calls : api_calls[i] = <<"list_volume_attachments", volume.id>>

LookupReturned(volume) ==
    /\ LookupIssued(volume)
    /\ VolumeScanFailed => Last(api_calls) # <<"list_volume_attachments", volume.id>>

\* C15: a dev/test-tagged block volume in Available status appears in the
\* unattached-volumes category iff its attachment lookup returns zero attachment
\* records, and not with one or more; the lookup is issued only for volumes that passed
\* the tag and status checks, and, unless the scan fails, for each of them.
C15_UnattachedIffNoAttachment ==
    VolumeScanEnded =>
        \A volume \in Range(inv[compartments[idx].id].volumes) :
            LET passed == /\ is_dev_test_resource(volume)
                          /\ volume.lifecycle_state = "AVAILABLE"
                appears == \E f \in Range(comp_results["unattached_volumes"]) :
                               f.resource_id = volume.id
            IN  /\ passed => (appears <=> (LookupReturned(volume) /\ volume.attachments = <<>>))
                /\ LookupIssued(volume) => passed
                /\ (passed /\ ~VolumeScanFailed) => LookupReturned(volume)

\* An attached and an unattached volume, both dev/test tagged and Available, were
\* listed; both lookups returned and only the unattached one is reported.
C15_Witness ==
    /\ VolumeScanEnded /\ ~VolumeScanFailed
    /\ [i \in DOMAIN inv["c1"].volumes |-> inv["c1"].volumes[i].id] = <<"v2", "v1">>
    /\ Len(api_calls) = 3
    /\ [i \in DOMAIN comp_results["unattached_volumes"] |->
           comp_results["unattached_volumes"][i].resource_id] = <<"v1">>

\* The consolidated document, once written.
DocumentWritten == files # <<>> /\ Last(files).type = "html"

\* The part of C16 on the category counts and the sections: the summary block holds one
\* count per category, the number of that category's findings, and the document holds
\* for each category exactly one section, with a table of one row per finding when the
\* category is non-empty and the "no issues" message when it is empty.
DocumentCountsAndSections ==
    DocumentWritten =>
        \A c \in Categories :
            /\ Cardinality({ i \in DOMAIN Last(files).summary :
                                Last(files).summary[i].category = c }) = 1
            /\ \A i \in DOMAIN Last(files).summary :
                   Last(files).summary[i].category = c =>
                       Last(files).summary[i].metric = Len(all_results[c])
            /\ Cardinality({ i \in DOMAIN Last(files).sections :
                                Last(files).sections[i].category = c }) = 1
            /\ \A i \in DOMAIN Last(files).sections :
                   Last(files).sections[i].category = c =>
                       IF all_results[c] # <<>>
                       THEN /\ Last(files).sections[i].table
                            /\ Len(Last(files).sections[i].rows) = Len(all_results[c])
                            /\ Last(files).sections[i].message = <<>>
                       ELSE /\ ~Last(files).sections[i].table
                            /\ Last(files).sections[i].message # <<>>

\* The summary block shows, beside the category counts, a grand total: their sum.
GrandTotalShown ==
    \E i \in DOMAIN Last(files).summary :
        /\ Last(files).summary[i].category \notin Categories
        /\ Last(files).summary[i].metric =
               Len(all_results["database_instances"])
               + Len(all_results["compute_missing_automation"])
               + Len(all_results["oversized_compute"])
               + Len(all_results["unattached_volumes"])
               + Len(all_results["unused_public_ips"])
               + Len(all_results["empty_load_balancers"])
               + Len(all_results["permissive_security_lists"])

\* C16: the consolidated document contains a summary block with one count per category,
\* each the number of findings of that category, and a grand total equal to their sum;
\* and for each category exactly one section, holding a table with one row per finding
\* when the category is non-empty and the fixed "no issues" message when it is empty.
C16_DocumentSummaryAndSections ==
    /\ DocumentCountsAndSections
    /\ DocumentWritten => GrandTotalShown

\* The emitted fields of the scanner table, by the names the findings give them, in the
\* table's order.  (The database row is that of database systems; the autonomous
\* database row names a subset of it in the same order.)
TableFields(category) ==
    CASE category = "database_instances" ->
             <<"name", "shape", "lifecycle_state", "availability_domain", "cpu_core_count",
               "database_edition", "resource_id">>
      [] category \in {"compute_missing_automation", "oversized_compute"} ->
             <<"instance_name", "shape", "lifecycle_state", "availability_domain",
               "time_created", "resource_id">>
      [] category = "unattached_volumes" ->
             <<"volume_name", "size_gb", "volume_type", "availability_domain",
               "time_created", "resource_id">>
      [] category = "unused_public_ips" ->
             <<"public_ip_name", "ip_address", "scope", "lifetime", "time_created",
               "resource_id">>
      [] category = "empty_load_balancers" ->
             <<"load_balancer_name", "shape", "lifecycle_state", "ip_addresses",
               "time_created", "resource_id">>
      [] category = "permissive_security_lists" ->
             <<"security_list_name", "vcn_name", "permissive_rules_count",
               "permissive_rules", "resource_id">>

\* The members of sequence t occur in sequence h, once each, in the order of t.
InOrderWithin(t, h) ==
    /\ \A i \in DOMAIN t : Cardinality({ k \in DOMAIN h : h[k] = t[i] }) = 1
    /\ \A i, j \in DOMAIN t :
           i < j => (CHOOSE k \in DOMAIN h : h[k] = t[i]) < (CHOOSE k \in DOMAIN h : h[k] = t[j])

\* C17: each delimited file has a header row made of the field names of the category's
\* first record, each once, with the fields of the scanner table in the table's order,
\* followed by exactly one data row per finding of the category, in collection order,
\* each row holding the finding's values under the header's names.
C17_HeaderAndRows ==
    \A n \in DOMAIN files :
        files[n].type = "csv" =>
            LET data == all_results[files[n].category]
            IN  /\ data # <<>>
                /\ { files[n].header[j] : j \in DOMAIN files[n].header } = DOMAIN data[1]
                /\ Len(files[n].header) = Cardinality(DOMAIN data[1])
                /\ InOrderWithin(TableFields(files[n].category), files[n].header)
                /\ Len(files[n].rows) = Len(data)
                /\ \A i \in DOMAIN data :
                       /\ Len(files[n].rows[i]) = Len(files[n].header)
                       /\ \A j \in DOMAIN files[n].header :
                              files[n].rows[i][j] = data[i][files[n].header[j]]

\* The database file of a run over two scopes: a header and three rows, those of the
\* findings d9, d1, a1 in that order.
C17_Witness ==
    /\ files # <<>>
    /\ files[1].type = "csv" /\ files[1].category = "database_instances"
    /\ Len(files[1].rows) = 3
    /\ [i \in 1..3 |-> files[1].rows[i][Len(files[1].header)]] = <<"d9", "d1", "a1">>

\* A second run has ended normally and every call in it had the outcome it had in the
\* first run: the same compartments were returned, the same calls failed the same way.
SecondRunSameOutcomes ==
    /\ first_run # <<>>
    /\ pc = "done" /\ exit_code = 0
    /\ lookups = first_run[1].lookups
    /\ compartments = first_run[1].compartments
    /\ failed_calls = first_run[1].failed_calls
    /\ faults = first_run[1].faults

C19_Step ==
    /\ (~UserInterrupted /\ UserInterrupted') =>
           /\ pc' = "done" /\ exit_code' = 1
           /\ comp_results' = comp_results
           /\ all_results' = all_results
           /\ summary' = summary
           /\ idx' = idx
           /\ pc # "report" => files' = files
           /\ pc = "report" =>
                  files' = SubSeq(ReportFiles(all_results), 1, Len(files'))
    /\ UserInterrupted => UNCHANGED vars

\* C19: a user interrupt arriving at any point of the run, inside a scanner's listing or
\* secondary call included, is not absorbed by a per-category error handler: once it
\* occurs no further scanner, scope or report-writing step executes and the process
\* ends with exit status 1.
C19_InterruptEndsRun ==
    /\ [](UserInterrupted => (pc = "done" /\ exit_code = 1))
    /\ [][C19_Step]_vars

\* The interrupt arrived inside the attachment lookup of the volume scanner, in the
\* second scope, after the first scope's findings were merged: the run ended there.
C19_Witness ==
    /\ <<2, "check_unattached_volumes", "KeyboardInterrupt">> \in faults
    /\ Len(api_calls) >= 2
    /\ Last(api_calls)[1] = "list_volume_attachments"
    /\ pc = "done" /\ exit_code = 1
    /\ Last(scan_log) = <<2, "check_unattached_volumes">>
    /\ all_results["database_instances"] # <<>>
    /\ files = <<>> /\ summary = <<>>

\* At least one scope was resolved and none of the resolved scopes is ACTIVE.
AllResolvedInactive ==
    /\ compartments # <<>>
    /\ \A i \in DOMAIN compartments : compartments[i].lifecycle_state # "ACTIVE"

\* C21: when at least one scope is resolved and every resolved scope is non-ACTIVE, no
\* scanner is invoked and no report file is written, and the run, unless the user
\* interrupts it, ends with the summary logged, all seven counts 0, and exit status 0.
C21_AllInactiveRunsToEmptySummary ==
    AllResolvedInactive =>
        /\ scan_log = <<>> /\ api_calls = <<>>
        /\ files = <<>>
        /\ all_results = EmptyResults
        /\ (pc = "done" /\ ~UserInterrupted) =>
               /\ summary # <<>>
               /\ \A c \in Categories : summary[1].counts[c] = 0
               /\ exit_code = 0

\* Two scopes were given, both resolved, neither ACTIVE: the run ended with status 0
\* and the all-zero summary.
C21_Witness ==
    /\ AllResolvedInactive
    /\ Len(compartments) = 2
    /\ pc = "done" /\ exit_code = 0
    /\ summary # <<>>
    /\ \A c \in Categories : summary[1].counts[c] = 0
    /\ files = <<>> /\ scan_log = <<>>

\* The positions of the ACTIVE resolved scopes below position i, in order.
RECURSIVE ActivePositionsBelow(_)
ActivePositionsBelow(i) ==
    IF i <= 1 THEN <<>>
    ELSE ActivePositionsBelow(i - 1)
         \o (IF i - 1 <= Len(compartments) /\ IsActive(compartments[i - 1])
             THEN <<i - 1>> ELSE <<>>)

\* How many times a finding occurs in a list.
Occurrences(f, list) == Cardinality({ i \in DOMAIN list : list[i] = f })

\* How many times the scans of the first k analysed scopes returned a finding.
RECURSIVE ReturnedOccurrences(_, _, _)
ReturnedOccurrences(f, category, k) ==
    IF k = 0 THEN 0
    ELSE ReturnedOccurrences(f, category, k - 1)
         + Occurrences(f, analyzed[k].results[category])

\* How many findings the scans of the first k analysed scopes returned.
RECURSIVE ReturnedCount(_, _)
ReturnedCount(category, k) ==
    IF k = 0 THEN 0
    ELSE ReturnedCount(category, k - 1) + Len(analyzed[k].results[category])

\* C22: the aggregator never deduplicates.  The scopes analysed are the ACTIVE resolved
\* scopes, position by position, so an id resolved twice is analysed twice; every
\* finding a scan returned carries the id of the scope scanned; and in every category
\* the collection holds as many findings as the scans returned, each finding as many
\* times as it was returned.
C22_NoDeduplication ==
    /\ [k \in DOMAIN analyzed |-> analyzed[k].idx] = ActivePositionsBelow(idx)
    /\ \A k \in DOMAIN analyzed :
           /\ analyzed[k].id = compartments[analyzed[k].idx].id
           /\ \A s \in Scanners : <<analyzed[k].idx, s>> \in Range(scan_log)
           /\ \A c \in Categories :
                  \A f \in Range(analyzed[k].results[c]) :
                      f.compartment_id = analyzed[k].id
    /\ \A c \in Categories :
           /\ Len(all_results[c]) = ReturnedCount(c, Len(analyzed))
           /\ \A f \in Range(all_results[c]) :
                  Occurrences(f, all_results[c])
                      = ReturnedOccurrences(f, c, Len(analyzed))
    /\ pc \in Scanners \cup {"merge"} =>
           \A c \in Categories :
               \A f \in Range(comp_results[c]) :
                   f.compartment_id = compartments[idx].id

\* The scope "c1" was given twice and resolved ACTIVE twice: it was analysed twice and
\* its production-shaped database is in the collection twice.
C22_Witness ==
    /\ compartment_ids = <<"c1", "c1">>
    /\ pc = "report"
    /\ faults = {}
    /\ Len(analyzed) = 2
    /\ analyzed[1].results = analyzed[2].results
    /\ Len(analyzed[1].results["database_instances"]) = 1
    /\ Len(all_results["database_instances"]) = 2
    /\ all_results["database_instances"][1] = all_results["database_instances"][2]

====
